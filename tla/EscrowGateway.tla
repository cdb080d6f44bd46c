---- MODULE EscrowGateway ----
(***************************************************************************)
(* The endpoints that build transactions for an escrow through Trustless   *)
(* Work, src/internal-trustless/escrows.controller.ts and its helpers.     *)
(*                                                                         *)
(* A write returns an unsigned transaction (xdr) to the client, who signs  *)
(* it and sends it back through send-transaction.  A write that fails for  *)
(* no fault of its own is put into the persistent queue, here the abstract *)
(* RetryJob, under a key of its operation and details.  The escrow         *)
(* contract is external: it is what the guards of the gateway read, and it *)
(* decides on what is sent.  One escrow; amounts and parties are few.      *)
(***************************************************************************)
EXTENDS Calls, Functions

CONSTANTS Milestones,
          AmountOf,       \* of each milestone
          Parties,        \* who a resolution may pay
          Trusting,       \* the parties with a trustline for the asset
          MaxAttempts     \* retry_jobs.max_attempts

Price == SumFunctionOnSet(AmountOf, Milestones)

ASSUME GatewayAssumption ==
    /\ Milestones # {} /\ IsFiniteSet(Milestones)
    /\ AmountOf \in [Milestones -> Nat \ {0}]
    /\ Trusting \subseteq Parties
    /\ MaxAttempts \in Nat \ {0}

VARIABLES escrow,                     \* the contract
          xdrs,                       \* transactions clients hold and have not sent
          handed,                     \* history: writes whose transaction a client got
          raw,                        \* history: what was sent that prepare had built
          replayStatus, replayAttempts  \* retry_jobs of the gateway

gatewayVars == <<escrow, xdrs, handed, raw, replayStatus, replayAttempts>>

EscrowTypes == {"single-release", "multi-release"}

MilestoneFlags == {"evidence", "approved", "disputed", "released", "resolved"}

Ops == {"create", "fund", "approve", "evidence", "release", "dispute", "resolve"}

\* What a request about the whole escrow carries for a milestone.
WholeEscrow == CHOOSE m \in Milestones : TRUE

MilestonesFor(op) ==
    IF op \in {"create", "fund"} \/ (escrow.type = "single-release" /\ op \in {"release", "dispute"})
    THEN {WholeEscrow} ELSE Milestones

\* What generateEngagementId gives the n-th request, which is new every time.
EngagementIds == UNION {1..l.requests : l \in {l \in Loads : l.service = "gateway"}}

\* What a request to fund asks for.
Deposits == {1, Price}

Keys == [op : Ops \ {"create", "fund", "dispute"}, milestone : Milestones, detail : {0}]
        \cup [op : {"create"}, milestone : {WholeEscrow}, detail : EngagementIds]
        \cup [op : {"fund"}, milestone : {WholeEscrow}, detail : Deposits]

KeyOf(c) == [op |-> c.op, milestone |-> c.milestone,
             detail |-> IF c.op \in {"create", "fund"} THEN c.total ELSE 0]

\* The jobs of the three job types the gateway registers its replay for.
Replays == INSTANCE RetryJob WITH Jobs <- Keys, Handled <- Keys,
                                  status <- replayStatus, attempts <- replayAttempts

GatewayInit ==
    /\ escrow \in [type : EscrowTypes, balance : {0}, deposited : {0}, flags : {{}},
                   milestones : {[m \in Milestones |-> {}]}]
    /\ xdrs = {}
    /\ handed = {}
    /\ raw = {}
    /\ Replays!Init

(***************************************************************************)
(* The contract: what a transaction needs and does.                        *)
(***************************************************************************)
Settled(e, m) == e.milestones[m] \cap {"released", "resolved"} # {}

SettledWhole(e) == e.flags \cap {"released", "resolved"} # {}

MayRelease(e, m) ==
    IF e.type = "single-release"
    THEN /\ \A n \in Milestones : "approved" \in e.milestones[n]
         /\ e.balance > 0 /\ "disputed" \notin e.flags /\ ~SettledWhole(e)
    ELSE /\ "approved" \in e.milestones[m] /\ e.balance >= AmountOf[m]
         /\ "disputed" \notin e.milestones[m] /\ ~Settled(e, m)

MayDispute(e, m) ==
    IF e.type = "single-release"
    THEN e.balance > 0 /\ ~SettledWhole(e)
    ELSE e.balance > 0 /\ ~Settled(e, m)

\* Nothing is asked of the balance.
MayDeliver(e, m) == IF e.type = "single-release" THEN ~SettledWhole(e) ELSE ~Settled(e, m)

MayResolve(e, x) ==
    /\ x.recipients \subseteq Trusting
    /\ IF e.type = "single-release"
       THEN "disputed" \in e.flags /\ ~SettledWhole(e) /\ x.total = e.balance
       ELSE /\ "disputed" \in e.milestones[x.milestone] /\ ~Settled(e, x.milestone)
            /\ x.total <= e.balance

Mark(e, m, flag) ==
    IF e.type = "single-release"
    THEN [e EXCEPT !.flags = @ \cup {flag}]
    ELSE [e EXCEPT !.milestones[m] = @ \cup {flag}]

Executed(e, x) ==
    LET m == x.milestone
    IN CASE x.op = "create"   -> e
         [] x.op = "fund"     -> [e EXCEPT !.balance = @ + x.total, !.deposited = @ + x.total]
         [] x.op = "approve"  -> [e EXCEPT !.milestones[m] = @ \cup {"approved"}]
         [] x.op = "evidence" /\ MayDeliver(e, m) ->
              [e EXCEPT !.milestones[m] = @ \cup {"evidence"}]
         [] x.op = "dispute" /\ MayDispute(e, m) -> Mark(e, m, "disputed")
         [] x.op = "release" /\ MayRelease(e, m) ->
              [Mark(e, m, "released") EXCEPT !.balance =
                 IF e.type = "single-release" THEN 0 ELSE @ - AmountOf[m]]
         [] x.op = "resolve" /\ MayResolve(e, x) ->
              [Mark(e, m, "resolved") EXCEPT !.balance = @ - x.total]
         [] OTHER -> e

(***************************************************************************)
(* The endpoints.                                                          *)
(***************************************************************************)

\* createEscrow, fundEscrow, approveMilestone, releaseFunds, disputeMilestone:
\* the request is built and relayed.  total holds the amount, or the id of an
\* escrow to create.
WriteRequest(r, op, m) ==
    /\ op \in Ops \ {"evidence", "resolve"}
    /\ m \in MilestonesFor(op)
    /\ \E amount \in CASE op = "fund" -> Deposits
                        [] op = "create" -> {served + 1}
                        [] OTHER -> {0} :
         Begin(r, [pc |-> "relay", op |-> op, milestone |-> m, total |-> amount,
                   recipients |-> {}])
    /\ UNCHANGED gatewayVars

changeMilestoneStatus(r, m) ==
    /\ Begin(r, [pc |-> "check_funded", milestone |-> m])
    /\ UNCHANGED gatewayVars

\* A bug to catch: evidence is relayed before funding.
assertEscrowFundedSkipped(r) ==
    /\ At(r, "check_funded")
    /\ Await(r, [pc |-> "relay", op |-> "evidence", milestone |-> call[r].milestone,
                 total |-> 0, recipients |-> {}])
    /\ UNCHANGED gatewayVars

assertEscrowFunded(r) ==
    /\ At(r, "check_funded")
    /\ IF escrow.balance > 0
       THEN Await(r, [pc |-> "relay", op |-> "evidence", milestone |-> call[r].milestone,
                      total |-> 0, recipients |-> {}])
       ELSE Done(r)
    /\ UNCHANGED gatewayVars

\* The disputeResolver of the escrow asks; the body names a type, and its
\* allocations whom to pay.
resolveDispute(r, type, m, recipients) ==
    /\ recipients # {}
    /\ type = "single-release" => m = WholeEscrow
    /\ Begin(r, [pc |-> "read_escrow", type |-> type, milestone |-> m, recipients |-> recipients])
    /\ UNCHANGED gatewayVars

\* known: whether the upstream reports the flags of the milestone.
assertResolvable(e, type, m, known) ==
    /\ e.type = type
    /\ "resolved" \notin e.flags
    /\ IF type = "single-release"
       THEN "disputed" \in e.flags
       ELSE known => "disputed" \in e.milestones[m] /\ ~Settled(e, m)

\* A bug to catch: a milestone is resolved with the whole balance.
resolutionTotalWhole(e, m) == e.balance

\* What the allocations are percentages of.  The shares add up to it
\* (DisputeDistributions).
resolutionTotal(e, m) ==
    IF e.type = "single-release" THEN e.balance
    ELSE IF e.balance > 0 /\ e.balance < AmountOf[m] THEN e.balance
    ELSE AmountOf[m]

readEscrow(r) ==
    /\ At(r, "read_escrow")
    /\ LET c == call[r]
       IN \E known \in BOOLEAN :
            IF /\ assertResolvable(escrow, c.type, c.milestone, known)
               /\ c.type = "single-release" => escrow.balance > 0
            THEN Await(r, [pc |-> "check_recipients", milestone |-> c.milestone,
                           recipients |-> c.recipients, read |-> escrow, known |-> known,
                           total |-> resolutionTotal(escrow, c.milestone)])
            ELSE Done(r)
    /\ UNCHANGED gatewayVars

\* A bug to catch: nobody asks whether the recipients can be paid.
assertRecipientsCanReceiveSkipped(r) ==
    /\ At(r, "check_recipients")
    /\ Await(r, [pc |-> "relay", op |-> "resolve", milestone |-> call[r].milestone,
                 recipients |-> call[r].recipients, total |-> call[r].total,
                 read |-> call[r].read, known |-> call[r].known])
    /\ UNCHANGED gatewayVars

assertRecipientsCanReceive(r) ==
    /\ At(r, "check_recipients")
    /\ IF call[r].recipients \subseteq Trusting
       THEN Await(r, [pc |-> "relay", op |-> "resolve", milestone |-> call[r].milestone,
                      recipients |-> call[r].recipients, total |-> call[r].total,
                      read |-> call[r].read, known |-> call[r].known])
       ELSE Done(r)
    /\ UNCHANGED gatewayVars

XdrOf(c) == [op |-> c.op, milestone |-> c.milestone, total |-> c.total,
             recipients |-> c.recipients, prepared |-> c.pc = "prepare"]

\* POST /trustless/prepare: whoever is logged in has any transaction built, for
\* any amount; no guard of the other endpoints is asked.
prepare(r, op, m, total, recipients) ==
    /\ load.users # {}
    /\ op \in Ops \ {"create"}
    /\ m \in MilestonesFor(op)
    /\ total \in CASE op = "fund" -> Deposits [] op = "resolve" -> 1..Price [] OTHER -> {0}
    /\ (op = "resolve") <=> (recipients # {})
    /\ Begin(r, [pc |-> "prepare", op |-> op, milestone |-> m, total |-> total,
                 recipients |-> recipients])
    /\ UNCHANGED gatewayVars

\* A refusal or a failure is passed on, and nothing is queued.
PrepareAnswers(r) ==
    /\ At(r, "prepare")
    /\ xdrs' \in {xdrs, xdrs \cup {XdrOf(call[r])}}
    /\ Done(r)
    /\ UNCHANGED <<escrow, handed, raw, replayStatus, replayAttempts>>

\* writeWithBackstop and, for a dispute, relayWrite: the upstream answers ...
RelayAnswers(r) ==
    /\ At(r, "relay")
    /\ xdrs' = xdrs \cup {XdrOf(call[r])}
    /\ handed' = handed \cup {KeyOf(call[r])}
    /\ Done(r)
    /\ UNCHANGED <<escrow, raw, replayStatus, replayAttempts>>

\* ... refuses (4xx) ...
RelayRefuses(r) ==
    /\ At(r, "relay")
    /\ Done(r)
    /\ UNCHANGED gatewayVars

\* ... or fails, and the write is queued unless its key is known.
RelayFails(r) ==
    /\ At(r, "relay")
    /\ faults < MaxFaults
    /\ faults' = faults + 1
    /\ call' = [call EXCEPT ![r] = IF call[r].op = "dispute" THEN Idle
                                   ELSE [pc |-> "enqueue", key |-> KeyOf(call[r])]]
    /\ UNCHANGED <<gatewayVars, load, served>>

EnqueueWrite(r) ==
    /\ At(r, "enqueue")
    /\ IF replayStatus[call[r].key] = "absent"
       THEN Replays!Submit(call[r].key)
       ELSE UNCHANGED <<replayStatus, replayAttempts>>
    /\ Done(r)
    /\ UNCHANGED <<escrow, xdrs, handed, raw>>

\* The queue runs the handler that onModuleInit registered: the request is
\* relayed again and the answer goes to nobody.
ReplayStarts(key) ==
    /\ replayStatus[key] = "pending"
    /\ Replays!Begin(key)
    /\ UNCHANGED <<escrow, xdrs, handed, raw, callVars>>

ReplayAnswered(key) ==
    /\ Replays!Succeed(key)
    /\ UNCHANGED <<escrow, xdrs, handed, raw, callVars>>

ReplayThrows(key) ==
    /\ IF replayAttempts[key] >= MaxAttempts THEN Replays!GiveUp(key) ELSE Replays!Requeue(key)
    /\ UNCHANGED <<escrow, xdrs, handed, raw, callVars>>

\* The client signs what it got and sends it; the contract has the last word.
sendTransaction(x) ==
    /\ x \in xdrs
    /\ escrow' = Executed(escrow, x)
    /\ xdrs' = xdrs \ {x}
    /\ raw' = raw \cup (IF x.prepared THEN {x.op} ELSE {})
    /\ UNCHANGED <<handed, replayStatus, replayAttempts, callVars>>

GatewayNext ==
    \/ \E r \in Reqs, m \in Milestones :
         \/ \E op \in Ops : WriteRequest(r, op, m)
         \/ changeMilestoneStatus(r, m)
         \/ \E type \in EscrowTypes, recipients \in SUBSET Parties :
              resolveDispute(r, type, m, recipients)
         \/ \E op \in Ops, total \in 0..Price, recipients \in SUBSET Parties :
              prepare(r, op, m, total, recipients)
    \/ \E r \in Reqs :
         \/ PrepareAnswers(r)
         \/ assertEscrowFunded(r) \/ readEscrow(r) \/ assertRecipientsCanReceive(r)
         \/ RelayAnswers(r) \/ RelayRefuses(r) \/ RelayFails(r) \/ EnqueueWrite(r)
    \/ \E key \in Keys : ReplayStarts(key) \/ ReplayAnswered(key) \/ ReplayThrows(key)
    \/ \E x \in xdrs : sendTransaction(x)

GatewaySpec == CallsInit /\ GatewayInit /\ [][GatewayNext]_<<gatewayVars, callVars>>

(***************************************************************************)
(* Properties.                                                             *)
(***************************************************************************)

\* However requests, retries and late signatures mix, no evidence reaches the
\* contract of an escrow that was never funded: the contract would accept it,
\* assertEscrowFunded refuses it.  Evidence that prepare built is another matter.
EvidenceAfterFunding ==
    (\E m \in Milestones : "evidence" \in escrow.milestones[m]) =>
        escrow.deposited > 0 \/ "evidence" \in raw

\* "Evidence may only be submitted once the escrow holds funds"
\* (escrow-funding.guard.ts): not so, prepare asks no guard.
EvidenceNeedsFunding ==
    (\E m \in Milestones : "evidence" \in escrow.milestones[m]) => escrow.deposited > 0

\* "Never hand out more than the contract holds" (escrow-read.helper.ts): not
\* so, a balance of 0 is taken for one that was not reported.
WithinBalance ==
    \A r \in Reqs : At(r, "relay") /\ call[r].op = "resolve" => call[r].total <= call[r].read.balance

\* A resolution that is handed out for signing is one the contract would
\* have accepted as the escrow was read, recipients included, so that no
\* signature is spent on nothing.  This needs a balance and the milestone's
\* flags to have been reported.
ResolutionIsAcceptable ==
    [][\A r \in Reqs :
         /\ At(r, "relay") /\ call[r].op = "resolve" /\ call'[r] = Idle
         /\ call[r].known /\ call[r].read.balance > 0
         => MayResolve(call[r].read, XdrOf(call[r]))]_xdrs

\* Settling one milestone never spends what is reserved for another: once the
\* price of a multi-release escrow has been deposited, the contract holds the
\* amounts of all the milestones that are not settled.  This is of the totals
\* that resolutionTotal gives, not of those a client has named to prepare.
OthersKeepTheirFunds ==
    (escrow.type = "multi-release" /\ escrow.deposited >= Price /\ "resolve" \notin raw) =>
        escrow.balance >= SumFunctionOnSet(AmountOf, {m \in Milestones : ~Settled(escrow, m)})

\* A write the queue has recorded as done has reached a client, who can sign it.
BackstopDelivers ==
    \A key \in Keys : replayStatus[key] = "succeeded" => key \in handed
====
