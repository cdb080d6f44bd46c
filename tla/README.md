# Thalos backend: TLA+ models

The Thalos backend is a NestJS service in front of two things it does not
control: a Supabase (Postgres) database and Trustless Work, which runs the
escrow contracts.  Its own logic is mostly *read a row, await, decide, await,
write the row by id*.  There are no transactions and no conditional writes, so
every await is a place where another request, a poll of the retry queue or a
webhook may run, and where the process may die.  The models are about that.

Paths are relative to the repository (`src/...` is its source directory).

## 1. Inventory

| Component | State | Operations | Hard behaviour |
| --- | --- | --- | --- |
| Persistent retry queue, `src/retry-queue` | `retry_jobs` rows: status, attempts, next_attempt_at, updated_at | enqueue, poll (reclaim stale, select due, process), manualRetry | overlapping polls, crash between the handler and its record, stale reclaim against slow handlers, forced retries |
| Agreement lifecycle, `src/agreements/agreement-lifecycle.ts`, `validation/` | none (a table of transitions, kept twice) | validateTransition, milestonesSatisfyCompletion | both copies and every writer have to agree |
| Agreements, `src/agreements/agreements.service.ts` | `agreements` row: status, contract_id, timestamps, milestones; `agreement_participants` | create, linkContract, updateStatus, updateMilestone, applyStatusChange | validation on a stale read, undo of a half-made create, whole-array milestone writes |
| Disputes, `src/disputes/disputes.service.ts` | `disputes`, `dispute_resolutions` | openDispute, assignResolver, resolveDispute, cancelDispute | two tables and the agreement change in separate steps, some unchecked; a read whose error counts as "none" |
| Dispute distributions, `src/disputes/dispute-distributions.ts` | none | buildDistributions | rounding: exact sums, noise in the percentages, floors of double products |
| Webhooks, `src/webhooks` | none of its own (jobs of the queue) | handleEvent, applyStatusUpdate, applyMilestoneUpdate | early, repeated and half-processed events |
| Sync engine, `src/agreements/sync` | none of its own | doSync, doReconcile | stale status, statuses outside its order, no validation |
| In-memory retry queue, `src/common/retry` | a Map of jobs, the polling guard | registerHandler, enqueue, poll, retryJob, clearCompleted | lost at restart, a poll during a poll, retries of running jobs |
| Milestone sync, `src/agreements/milestone-sync` | none of its own (jobs of the in-memory queue) | push of a milestone change to the escrow | refused and failed pushes |
| Escrow gateway, `src/internal-trustless` | none; the contract and the client hold it | create, fund, approve, evidence, release, dispute, resolve, prepare, send-transaction; failed writes go to the persistent queue | what was checked when a transaction was built is old when it is signed; `/trustless/prepare` builds the same transactions unchecked; replays whose answer nobody gets |
| Accounts and profiles, `src/profiles` | `auth_users`, `profiles` | login (external), getOrCreate, update, setUserRole | two creates of one profile |
| Wallets, `src/wallets`, `src/common/wallets` | `user_wallets`, challenges | challenge, link, update, unlink, verify | three proofs of ownership, one primary, several statements per request, a count whose error is ignored |
| Hiring, `src/opportunities`, `src/applications` | opportunities, applications | create, update, remove, apply, decide | an accept is three writes in two tables |
| Verification, `src/kyc`, `src/kyb`, `src/verification`, `src/identity-providers` | `verifications`, `kyb_verifications` | sessions, provider webhooks, review, status | late, repeated and reordered webhooks; sessions replaced by new ones |
| Notifications, `src/notifications` | `notification_logs` | a notice per event or request | partial sends, a crash between mail and log |
| Files and chat, `src/files`, `src/agreement-chat` | bucket objects, `files`, messages, attachments | upload, download, sendMessage | object and row, message and attachments, written one after the other; a row that was written although its answer is lost |
| Activity log, ramps, contacts, reputation, auth, wiring | rows nothing else depends on | CRUD, sums and output | none that changes other state |

Interaction: clients call Agreements and Disputes; Disputes calls
`applyStatusChange`; Trustless Work calls Webhooks, which enqueues on the
persistent queue, which calls Webhooks back; create, linkContract and
updateMilestone enqueue a sync on the in-memory queue; everything that changes
an agreement meets in one row.  The gateway puts its failed writes on the
persistent queue too.  Wallets decide who may see an agreement, its files and
its conversation; the profile of the login wallet decides who may hire, review
and administrate.  Identity providers call KYC back through the event bus, and
verification reads what KYC and KYB have left.

What makes the parts correct: a job's row tells the truth, its attempts are
bounded, finished work is not repeated, every job settles; a status is only
reached along declared transitions; completion respects milestones; disputes
and their agreement agree; an acknowledged event was applied; a sync does not
go backwards; a payout is exact; a wallet, a verdict and a log row claim only
what was proved, said and sent; half-made files, messages and accepts are paid
for by a fault; the gateway lets nobody sign what the contract would refuse.
`PROJECT.json` lists the hazards line by line with the property that covers each.

## 2. Modules

| Module | Models |
| --- | --- |
| `RetryJob` | abstract: what the queue promises of one row |
| `RetryQueue` | detailed: the service, split at its awaits |
| `AgreementLifecycle` | the transition table and, as a specification, one agreement's status |
| `Agreements` | the agreement row and the handlers of the agreements service |
| `DisputeHandling` | disputes next to Agreements; `ClientsSpec` |
| `TrustlessWebhooks` | webhook jobs (over `RetryJob`) next to Agreements |
| `AgreementSync` | doSync and doReconcile next to Agreements |
| `EscrowPlatform` | all writers of the agreement together; `PlatformSpec` |
| `DisputeDistributions` | buildDistributions |
| `Calls` | requests in flight, loads and faults, for the services below |
| `Accounts` | logins and profiles; extended by the next five |
| `Wallets` | challenges, linked wallets and the access they give |
| `Hiring` | opportunities and applications |
| `IdentityVerification` | KYC, KYB and the reported status |
| `Notifications` | notices, mails and their log |
| `AgreementRoom` | files and conversation (over `Wallets`) |
| `EscrowGateway` | the endpoints towards the escrow contract, their backstop jobs (over `RetryJob`) and the contract |
| `MemoryQueue` | the in-memory queue with its restarts |
| `Services` | the composition of the modules from `Accounts` on, and of `DisputeDistributions`; `ServicesSpec` |
| `RetryQueueProofs`, `DisputeHandlingProofs`, `EscrowPlatformProofs`, `WalletsProofs`, `EscrowGatewayProofs`, `DisputeDistributionsProofs`, `ServicesProofs` | theorems; those of the in-memory queue are in the last |
| `SumTheorems` | sums over finite sets, for the gateway and the distributions |
| `MC...` | constants, loads and symmetry for TLC |

**RetryQueue.**  `job` is the table; `run[w]` is one call of `processDueJobs`
or `manualRetry` in flight, with the await it is suspended in (`pc`), the rest
of its loop (`todo`), the attempts it read (`snap`) and the row it works on
(`cur`).  ReclaimSelect, ReclaimJob, SelectDue, StartJob, HandlerResolves /
HandlerThrows / NoHandler and Finish... are the awaits of the code in their
order.  `next_attempt_at` and `updated_at` are abstracted to `due` and `stale`,
which become true by steps of their own.  A crash empties every call; an
`updateJob` that fails in a poll is an unhandled rejection and is that crash.
`done` and `exhausted` are history variables that record what really happened
to the handlers.

**Agreements, DisputeHandling, TrustlessWebhooks, AgreementSync.**  One
agreement row is shared.  A handler in flight occupies a slot of `req`; what it
read waits there.  `Foo...Read` is the code up to the await that reads and
checks, `Foo...Write` the rest.  `applyStatusChange` is `ApplyRead` and
`ApplyWrite`, entered by the dispute handlers with `enforce` as they pass it.
`Abort` is a crash or a failed database call: what was written stays.  `seen`
is a history of the statuses the row has had.  Access and wallet checks,
amounts, titles, activity rows, emails and events are left out; the callers
modelled are those that pass the checks.  Trustless Work is external: its
escrow status and milestone flags are any value, from the statuses that
`TW_TO_THALOS_STATUS` names.  `openDispute` takes only the data of its select:
`OpenDisputeCheckFails` is a select that failed, and two active disputes, on
which `maybeSingle` fails, are no data either.  The dispute inserted then is
marked `unread`, a history field.  The webhook jobs use `RetryJob` in place of
`RetryQueue`, so that what they add is not hidden by the queue's own overlap.

**DisputeDistributions.**  Stroops are whole numbers, percentages whole parts of
`Whole`; `Tolerance` stands for the float noise the code accepts in their sum.
`Math.floor((totalStroops * percentage) / 100)` is computed in doubles and may be
off by one from the exact floor (6000 stroops at 1.15% give 68, not 69):
`FloorShares` is every floor of a product that is off by up to `Drift` parts of
the percentage, and `buildDistributions` may get any of them.

**Calls and Services.**  `call[r]` is a request in flight: the await it stands at
(`pc`) and what it has read.  `Begin` runs a handler up to its first await with
something left to do, `Await` to the next one, `Done` to its end, `Dies` is a
crash or a failed database call.  `load`, chosen at the start, says which
service a behaviour serves, for whom, in how many slots and how many requests.
The services of `Services` share the accounts and nothing else, so a behaviour
serves one of them and the others keep their initial state; one instance then
asks every question about them.  Properties that need requests not to overlap
say so (`Serial`), and the same run also has the loads that do overlap.

**Wallets.**  The table is append-only, so an id a handler still holds never
names somebody else's row.  `Accepted` is the two unique indexes of
`scripts/001_create_user_wallets.sql`: a statement they refuse changes nothing.
`LinkRead`, `LinkCount`, `LinkProve`, `LinkInsert` and `LinkProvider` are the
awaits of linkWallet, `LinkCountFails` the count whose error is not looked at;
`ProvenCustodial`, `ProvenAccesly` and `ProvenExternal`
its three proofs.  A signature is a member of `SignedMessages`: the holder of a
key signs challenges made for the own account.  `schema` is how far the
database is migrated, which the insert falls back on.

**IdentityVerification.**  A provider says words about the sessions it opened,
and its webhook delivers any of them, at any time, any number of times.  Each
provider's words are translated as its `getStatus` does.  A new deployment may
come with another provider.  `ledger` records sessions opened and verdicts
announced.

**EscrowGateway.**  A write builds a request, relays it and hands out an unsigned
transaction (`xdrs`), which its client may sign and send any time later or
never.  The contract (`Executed` and the `May...` guards) is external: it
decides on what is sent, by the flags and the balance the gateway's own guards
read.  Deposits are 1 or the price, which gives partly funded escrows.
`prepare` is `POST /trustless/prepare`, which relays any `escrow/` path for whoever
is logged in: any operation, with any total, and none of the guards.  `raw`, a
history, holds the operations of what it built and a client sent.

**MemoryQueue.**  `polls[t]` is a call of `processDueJobs` by the timer, with
the due jobs it still has to run; `processing` is its guard.  A restart empties
the Map, the handlers and the polls.  `successes` and `failures` are histories.

**Notifications, Hiring, AgreementRoom.**  One action per await of each handler,
and one more wherever a statement may be refused.  `outbox` is what the mail
provider has really sent; `bucket` is the storage, next to the rows about it.
The insert of a file may be refused (`InsertFileRefused`) or done without an
answer (`InsertFileAnswerLost`); the code takes both for a refusal and removes
the object.  `told` says which ids an upload answered with: a message can name
no others.

## 3. Runs

| Run | Instance | Shows |
| --- | --- | --- |
| `retry_serial` | 2 jobs (one without a handler), 1 call at a time, 2 attempts, 2 faults, 1 forced retry | TypeOK, AttemptBudget, RerunOnlyAfterFault, RetryQueue implements RetryJob |
| `retry_overlap` | 2 jobs, 2 calls at a time, 1 fault, 1 forced retry, fairness | OutcomeIsReal; Settles |
| `retry_final` (violation) | 1 job, 2 polls, no fault | a succeeded job is run again |
| `clients_serial` | 1 slot, 1 milestone, 2 disputes, 1 fault | TypeOK, OneCheckedDispute, resolutions, participants, lifecycle refinement, completion rule, DisputeEndsOnce |
| `clients_overlap` | 2 slots, 2 disputes | ReachedLegally, SettledIsStamped |
| `dispute_withdrawal` (violation) | 1 slot | withdrawing an orphan dispute activates a pending agreement |
| `dispute_twice` (violation) | 2 slots, 2 disputes, no fault | two overlapping openDispute calls leave two open disputes |
| `platform_serial` | 1 slot, 1 milestone, 1 dispute, a status and a milestone event, 2 attempts, 1 fault | AcknowledgedMeansApplied, WebhooksMoveLegally, PullsForward |
| `webhooks_race` (violation) | 2 slots, 1 event, no fault | an event that was never applied is acknowledged |
| `sync_terminal` (violation) | 1 slot | a sync takes a cancelled agreement to funded |
| `services` | 3 users with a wallet each, 1 or 2 slots, 2 to 6 requests, 1 fault; see below | the properties of every service |
| `gateway_backstop` (violation) | 1 fault | a replayed write succeeds and its transaction reaches nobody |

Further counterexamples are kept as configurations beside the runs of
`PROJECT.json`.  TLC refutes the property of each within a minute; they say where a
property above had to be weakened, or stated for one handler at a time.

| Configuration | Module, property | Instance | Shows |
| --- | --- | --- | --- |
| `kyb_reported` | MCServices, KybIsReported | 1 organization | an approved KYB is reported as not verified |
| `dispute_unread` | MCDisputeHandling, OneActiveDispute | 1 slot, 2 disputes, 1 fault | a failed select lets a second dispute in |
| `dispute_reassigned` | MCDisputeHandling, DisputeEndsOnce | 2 slots, 1 dispute, no fault | a withdrawn dispute is under review again |
| `status_overwrite` | MCDisputeHandling, TerminalAcceptsNone | 2 slots, 1 dispute, no fault | a terminal status is overwritten |
| `completion_stale` | MCDisputeHandling, CompletionNeedsMilestones | 2 slots, 1 milestone, no fault | an agreement is completed with a pending milestone |
| `webhook_undeclared` | MCEscrowPlatform, WebhooksMoveLegally | 2 slots, 1 event, no fault | an event takes a pending agreement to completed |
| `webhook_completion` | MCEscrowPlatform, CompletionNeedsMilestones | 1 slot, 1 milestone, 1 event | an event completes an agreement with a pending milestone |
| `evidence_relayed` | MCServices, EvidenceNeedsFunding | the gateway's loads | evidence built by `/trustless/prepare` reaches an unfunded escrow |
| `resolution_balance` | MCServices, WithinBalance | the gateway's loads | a resolution hands out more than the balance that was read |
| `zero_share` | MCServices, ZeroIsDropped | the distributions | a share of 0% is paid |

What `services` checks, by service:

| Service | Property | Says |
| --- | --- | --- |
| wallets | IdentityIsProven | a verified wallet and a Pollar id are their user's, by every order of logins, challenges and links |
| | PrimaryKept | without overlap a user with wallets has a primary one |
| | AccessKept | linking, moving the primary flag and verifying never take access away |
| hiring | OneHire | without overlap one builder is hired, and one more for each accept that failed halfway |
| | HiredIsNotOffered | once the requests are over, an opportunity that hired is not offered |
| verification | StatusIsTheSessions | a KYC row says what its provider said of that very session, for that user |
| | OneVerdictPerSession | without overlap a KYB session gets one verdict |
| files, chat | FilesAreWhole | a file that may be read and cannot be downloaded costs a fault; so do objects without a row |
| | ConversationIsWhole | a member can download what the conversation shows; missing attachments cost faults |
| notifications | LogTellsTheTruth | sent in the log means mailed; a difference costs a fault |
| gateway | EvidenceAfterFunding | no evidence on an escrow that was never funded, unless `/trustless/prepare` built it |
| | OthersKeepTheirFunds | settling a milestone leaves the others their amounts, unless `/trustless/prepare` built the resolution |
| | ResolutionIsAcceptable | a resolution handed out is one the contract accepts, as the escrow was read |
| in-memory queue | MemoryJobRunsOnce | work is done once and tried `maxRetries` times at most |
| distributions | ValidIsBuiltExactly, NobodyIsShortchanged | exact payout; fair rounding, however the floors come out |

*Bounds.*  Two calls are what a lost update, a double run or a stale validation
needs; two jobs show that one job's outcome never lands on another.  Two
attempts make "not the last" and "the last" both happen; a second fault makes a
crash during recovery happen.  One agreement is enough because no handler
touches two.  Two disputes are needed for a second active one.  `MaxResolutions`
2 leaves room for the second resolution that ResolutionBudget is about.
`AttemptCap` (9) is never reached: crashes and forced retries are what could
drive attempts up, and they are bounded.  `platform_serial` leaves out
updateStatus, which the clients' runs and `sync_terminal` have: every status is
reached through the sync all the same.  Whole 12 with totals up to 9 gives every
remainder from -3 to 5 stroops among three parties, floors one off the exact one in
both directions, and balances where every floor is zero.  NoiseAssumption asks
for 8 parts at least; with as few as that every percentage drowns in the noise.

In `services` each load (`MCServices`) is as long as its property needs: six
requests let an opportunity be created, applied for twice, accepted, and one
more application decided; five let an organization be rejected, retry and be
approved; three wallet requests let two wallets be linked and the primary one
unlinked, with a row older than the proofs to start from, once for the user's
own wallet and once for somebody else's.  Three users make one of them neither
owner nor applicant.  Two slots are checked with fewer requests.  One fault is
enough for every *partial failure* here because each costs the properties one
allowance; two would be counted twice.  Two KYC sessions and two words make a
late word about a replaced session.  Two ticks make a poll during a poll.

*Fairness* (`retry_overlap`).  Weak fairness of every worker: `setInterval`
never stops firing and every await of a worker settles; of BackoffElapses and
GoesStale: time passes.  Handlers are assumed to settle (the code has no
timeout) and, in this run, to do so within `staleProcessingMs`.  Nothing is
assumed of clients, administrators or faults, and a handler may throw for ever.

*Deadlock* is checked for the retry queue.  For the others it is off: a deleted
agreement, a used-up bound of disputes or a finished computation really stops.

*What the violation runs and the further counterexamples show.*  (1) `processDueJobs` has no re-entrancy guard
and does not claim rows: a second poll that read the same row runs the handler
of a job that has already succeeded.  (2) `openDispute` inserts before it
validates; the dispute it then refuses stays open, and cancelling it moves a
pending agreement to active.  (3) `applyStatusUpdate` explains an update that
matched nothing by a later select; a contract linked in between turns a lost
event into "Idempotent duplicate".  (4) `doSync` counts cancelled, resolved and
disputed as position -1, behind every status of its order.
(5) The KYB service writes `kyb_verifications`, and the compliance status is
read from `verifications`, where nothing ever writes an organization.  (6) The
backstop job of the gateway replays a write whose result is an unsigned
transaction; nobody waits for it, and the job counts as succeeded.  (7) Two
overlapping openDispute calls, or a single one whose select fails, leave two
active disputes.  (8) Reads that are old when they are acted upon:
`updateStatus` overwrites a terminal status and completes an agreement whose
milestone has just lost its approval, `assignResolver` takes a withdrawn dispute
under review, and a webhook for a contract it did not find writes its status
unvalidated once the contract is linked.  (9) Webhooks complete an agreement
without reading its milestones.  (10) `/trustless/prepare` asks none of the
guards, so that evidence reaches an unfunded escrow.  (11) `resolutionTotal`
takes a balance of 0 for an unknown one and hands out the milestone's amount.
(12) When every floor is zero, the first allocation is paid everything, at 0% too.

What a violation run refutes under overlap and a passing run checks in series is
the same property: `CompletionNeedsMilestones`, `DisputeEndsOnce`,
`WebhooksMoveLegally`.  `OneActiveDispute` is false in series too, because of the
failed select; `OneCheckedDispute` is what the check does keep: at most one active
dispute was opened upon its answer, and without faults there is one at most.

Met on the way, and true of the models: a withdrawn dispute can still be
resolved by its resolver (DisputeEndsOnce allows for it); two overlapping
accepts hire two builders (OneHire is stated for `Serial`); an upload whose row
was written although its answer was lost leaves a readable row without its object
(FilesAreWhole makes it cost a fault).

## 4. Proofs

Every invariant and every action property of a passing run is a theorem.  They
hold for any number of jobs, calls, requests, users, disputes, milestones and
allocations, from the named assumptions on the constants: `QueueAssumption`,
`AgreementsAssumption`, `DisputesAssumption`, `CallsAssumption`,
`AccountsAssumption`, `WalletsAssumption`, `RoomAssumption`, `HiringAssumption`,
`IdentityAssumption`, `NoticesAssumption`, `MemoryQueueAssumption`,
`GatewayAssumption`, `DistributionAssumption` and `NoiseAssumption`.  Four of
these ask for more than types.  `Reqs` is finite, so that one slot can be
counted; `Nothing` is no row, no file and no session; a load of notifications
fits `MaxNotices`.  `NoiseAssumption` says that the noise of all allocations but
one, `Tolerance` in the sum and `Drift` in each product, is at most the whole.  The
code accepts 1e-9 in 100, and a product and a quotient of doubles are off by
2.3e-14 in 100 at most, so it holds of up to 10^7 allocations; beyond, the share
of the largest could be taken below zero and ValidIsBuiltExactly would be false.
TLC evaluates all of them.

What holds only when requests do not overlap is stated that way: by `Serial`
inside the property, or, where the run has one slot, by the hypothesis
`OneAtATime` (`Serial` for the retry queue).  Faults are never excluded by a
hypothesis; where a property is about their absence it says `faults = 0`.

`RetryQueueProofs`, whatever overlaps
- `TypeCorrect`: TypeOK is not inductive, because the writes of a suspended
  `processJob` go to the row `cur`; the invariant `TypeInv` adds that a call in
  the handler, or behind it, has a job.
- `OutcomesAreReal`: OutcomeIsReal is about the table only.  `OutcomeInv` adds
  `RunsAgree`: a call about to write an outcome has seen that outcome itself.
  It needs nothing about what the other calls do, which is why it survives
  overlap.

The second part is under `Serial` (at most one worker).
- `SerialInv`: what a call read is still what the table says (`CallInStep`), and
  every row a poll may start has an attempt left in its budget
  (`RowsInBudget`).  The budget is `MaxAttempts + faults + manual`; a fault
  pays for the attempt it orphans, a forced retry for itself.
- `AttemptsBudgeted`, `RerunsNeedFaults` are consequences.
- `QueueImplementsRetryJob`: the columns status and attempts are the refinement
  mapping; Enqueue is Submit, StartJob is Begin, the last writes of
  `processJob` are Succeed, GiveUp or Requeue, ReclaimJob is Requeue, and every
  other step stutters.

`DisputeHandlingProofs`
- `ClientTypeCorrect`, with what each suspended handler carries (`ClientInv`).
- `SettledAreStamped`: status and stamp are written together, so it is enough
  that a timestamp is never taken back.
- `StatusesReachedLegally`: the inductive invariant says that a status waiting
  to be written is a declared successor of one in `seen`, which is never
  smaller than when it was validated.
- With one slot: `SerialInv` adds that what the handler in flight decided still
  holds of the rows it is going to write, of the agreement (`StillDecided`) and
  of the disputes (`DisputeDecided`).  `BooksInv` is the part about disputes, with
  at most one active that was checked (`OneIsActive`), none unchecked before a
  fault (`UnreadIsPaid`) and resolutions beyond the first paid for by faults
  (`ResolutionsPaid`); it asks nothing of the agreement.
  `OneDisputeIsActive`, `ResolutionsAreBudgeted`, `DisputesEndOnce`,
  `CompletionHasMilestones` and `ClientsImplementLifecycle` follow.  In the last
  one every write of the status is the abstract transition of
  `AgreementLifecycle`, and everything else stutters.
- `AgreementsHaveParties`: a row without participants is being created or
  undone, or a call has failed (`PartiesOrUndo`).

`EscrowPlatformProofs`, with one slot for requests, events and syncs together
- `PlatformInv` says what the one in flight knows: an event about to be written
  has a legal status to write, one about to be acknowledged has been applied or
  refused (`EventKnows`), and a sync holds the status the row has, then one that
  is not behind it (`SyncKnows`).  The payloads of Trustless Work may name any
  status at all (`AnyStatus`): what is written was validated.
- `AcknowledgedEventsAreApplied`, `EventsMoveLegally` and `SyncsPullForward`
  follow; `webhooks_race` shows that two slots break the first.
- `OneDisputeStaysActive`, `ResolutionsStayBudgeted`, `DisputesStayEnded`: events
  and syncs change the agreement under a dispute's handler, and `BooksInv` does
  not care (`BooksApart`).  The same cannot be said of `SettledIsStamped`,
  `ReachedLegally` and `CompletionNeedsMilestones`: a sync writes a status alone,
  and neither it nor a webhook looks at the milestones.
- `AgreementsStillHaveParties`, in any number of slots: `PartiesOrUndo` again;
  whoever is not creating the row neither takes its participants away nor brings
  it back (`RowStays`).

`WalletsProofs`
- `IdentitiesAreProven`: `WalletInv` says the same of deleted rows, of what the
  login wrote (`AuthProven`) and of every handler in flight (`CallsSound`): a
  link about to insert has proved its claim, and a verification about to write
  belongs to the row it read.  Rows are never given to another user or address
  (`RowsKept`), so that a late write cannot turn a proof into somebody else's.
- `AccessIsKept`: of all the steps only `UnlinkDelete` takes a row from its user
  (`NextStays`), however many overlap.
- `PrimaryIsKept`: between requests every user has no wallet, a primary one or
  waived it (`Fine`); within a request the handler may owe the flag to one user
  (`Excuses`), and what it read still holds (`Holds`).  The unique indexes
  (`Accepted`) are invariant by themselves.  The proof needs them twice: they
  make the deleted primary wallet the only one, and `AcceptedRow` shows that they
  refuse none of these writes, or the flag would be lost.

`EscrowGatewayProofs`
- `EvidenceIsFunded`: a transaction may be signed long after its guard was
  passed.  `GatewayInv` says that a balance was deposited, that every evidence
  transaction, being relayed or handed out, was built when something had been
  deposited or by `prepare`, and that totals are never negative; deposits are
  never undone.
- `ResolutionsAreAcceptable`: `assertResolvable` does not ask whether an escrow
  of the single-release type has been released.  `ResolutionInv` adds why it need
  not: the contract never has both flags (`FlagsApart`).
- `OthersFundsAreKept`: a total is read long before it is spent, so balances say
  nothing about it.  `ReservedInv` says that no resolution asks for more than its
  milestone's amount (`Capped`), save one that `prepare` built, and that what is
  missing from the deposits was paid for milestones now settled (`Reserved`), as
  long as no such resolution has been sent.

`ServicesProofs`, about the composition: a service that is not served keeps its
initial state, and one that is keeps the invariant of its own.
- `HiresOne`, `HiredIsClosed`: `HiringInv`.  An opportunity that hired is filled,
  or an accept is on its way to fill it, or something failed (`OffersClose`, with
  overlap).  In series the hires are paid for by `1 + faults`, and the one that is
  not paid for has left nobody to accept (`HireBudget`).
- `StatusIsSaid`: `KycInv` ties each row to its session and the session to its
  user (`RowsTrue`, `SessionsShape`).  After a redeployment a word may be read in
  another provider's vocabulary; `WordAbroad` shows that it then means the same
  or nothing, from the tables of the six providers.
- `VerdictsAreFinal`: `KybInv`, with what the request in flight has decided and a
  budget of verdicts per session.
- `FilesAreKept`, `ConversationIsKept`: `RoomInv` counts the objects without a
  row that no handler is going to mend, the rows whose upload did not tell of them
  (`Orphans`), and the messages that miss attachments (`Missing`); a step that
  leaves one behind is a fault.  A row that was told has its object, and only such
  a row is ever attached.  Two uploads never hold
  the same object (`UploadsApart`).
- `LogIsTrue`: `NoticeInv` counts the notices that ended with a row missing or
  wrong (`Unlogged`) in the same way.

- `MemoryJobsRunOnce`: MemoryJobRunsOnce says nothing of the polls, which hold
  the ids of jobs they are going to run.  `MemoryInv` adds that there is one poll
  at a time and only while `processing` is set (`OnePoll`), that what a poll
  holds is still queued, and the one it runs still processing (`PollsHold`), and
  that a row's retryCount and status agree with the history (`RowsHonest`).  The
  guard of `processDueJobs` is what makes `OnePoll` inductive, and a job's id is
  never used again.
- The theorems of the wallets, the gateway and the in-memory queue hold of the
  composition too (`IdentitiesStayProven`, `PrimaryStaysKept`,
  `AccessStaysKept`, `EvidenceStaysFunded`, `OthersFundsStayKept`,
  `ResolutionsStayAcceptable`, `MemoryJobsRunOnceInServices`).  A service in use
  keeps its own invariant, and the tables of one that is not in use are left
  alone (`WalletsApart`, `PlatformApart`).  Logins are everybody's: while another
  service is in use they still change the key a user is known by, so
  `WalletsServed` and `GatewayServed` say separately what holds of the tables
  then, and what of the requests only when the service is served.
- `PayoutsAreExact`, `PayoutsAreFair`, from `DisputeDistributionsProofs`.

`SumTheorems`
- What `SumFunctionOnSet` of the community modules computes, from its definition
  by a recursive function: it is an integer, the sum without one element and that
  element (`SumRemoves`), depends on the values in the set only, skips zeros, and
  is bounded by the bounds of the values.  All by induction over a finite set.
  The library's induction theorems take a predicate, which the provers cannot
  instantiate; `SubsetInduction` takes the set of the subsets that satisfy it
  instead, and follows from the well-founded order of strict subsets.

`DisputeDistributionsProofs`
- What the code computes is kept as it was computed, and the input it came from
  (`DistributionsInv`).  Each floor is within a stroop and the drift of its share
  (`ShareBounds`), whichever one the doubles gave, and their sum within a stroop
  and the noise for each allocation of the total (`ShareSums`).  Without the
  largest they fit in the total, because n - 1 of n shares hold at most that part
  of the sum (`OthersFit`, where `NoiseAssumption` is needed), so the largest, which
  gets the rest, gets no negative amount (`SplitIsExact`).  Dropping empty amounts
  changes no sum (`SumSkipsZeros`, `PaidIsExact`): the payload is the balance to the
  stroop.
- What the largest gets is what the others have left of the total, so its error is
  the sum of theirs (`GainIsBounded`); everybody else is paid the floor
  (`NobodyLoses`).

Model-checked only: `Settles`.  Liveness under fairness, and ENABLED, are out of
the prover's reach.

## 5. Not modelled

- The activity log, ramps, contacts and reputation: single-row reads and writes,
  sums and relays, on rows no decision depends on.
- Authentication, guards, configuration, HTTP clients and Nest wiring: the
  callers modelled are those that pass them.  The login appears as what it
  writes.
- In what is modelled: lists and other plain reads, field validation, wording,
  templates, titles, amounts other than the escrow's, domain events nobody
  reacts to, info webhooks and a Trustless Work status outside the map.
- The conversion of amounts from and to decimals around the stroop arithmetic.
  Amounts are taken to be exact numbers of stroops below 2^53.
- Selects whose error is not looked at and which then find nothing, where finding
  nothing is a refusal or ends the handler: to the rows that is `Abort` or `Dies`.
  Where the handler goes on, the model has a step of its own
  (`OpenDisputeCheckFails`, `LinkCountFails`).
- The internal relay (`/internal/trustless`), which other services of the platform
  use with a shared key, and the paths of `/trustless/prepare` that build no
  transaction for the escrow.
- Lost updates of the milestones array.  updateMilestone, webhooks and reconcile
  are modelled with the array they carry, and overlapping ones do lose updates;
  the code promises nothing about it that could be checked.
- Time: `due`, `stale` and the expiry of challenges are steps of their own.

## 6. Plan

1. Done: the retry queue, abstract and detailed; agreements, disputes, webhooks
   and sync on one row; the services with tables of their own, composed by load;
   distributions; the unguarded relay; proofs of every safety property of the
   passing runs, and of those of the services for their composition.
2. Next: type correctness of `PlatformSpec` for any number of slots, and what
   survives of the lifecycle when syncs and webhooks write too: a status that no
   sync wrote was reached along the table.
