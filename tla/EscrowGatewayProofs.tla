---- MODULE EscrowGatewayProofs ----
(***************************************************************************)
(* Proofs about EscrowGateway for any milestones, amounts and parties, and *)
(* any number of overlapping requests, failures and late signatures.       *)
(***************************************************************************)
EXTENDS EscrowGateway, SumTheorems, TLAPS

\* The amounts of the milestones add up, in whatever order they are settled.
LEMMA AmountsAddUp ==
  \A S \in SUBSET Milestones :
    /\ SumFunctionOnSet(AmountOf, S) \in Nat
    /\ \A m \in S :
         SumFunctionOnSet(AmountOf, S) = SumFunctionOnSet(AmountOf, S \ {m}) + AmountOf[m]
<1> SUFFICES ASSUME NEW S \in SUBSET Milestones
             PROVE  /\ SumFunctionOnSet(AmountOf, S) \in Nat
                    /\ \A m \in S : SumFunctionOnSet(AmountOf, S)
                                      = SumFunctionOnSet(AmountOf, S \ {m}) + AmountOf[m]
  OBVIOUS
<1>1. IsFiniteSet(S) /\ \A m \in S : AmountOf[m] \in Nat
  BY GatewayAssumption, FS_Subset
<1>2. SumFunctionOnSet(AmountOf, S) \in Nat
  BY <1>1, SumIsNat
<1>3. ASSUME NEW m \in S
      PROVE  SumFunctionOnSet(AmountOf, S) = SumFunctionOnSet(AmountOf, S \ {m}) + AmountOf[m]
  <2>1. IsFiniteSet(S \ {m}) /\ \A x \in S \ {m} : AmountOf[x] \in Nat
    BY <1>1, FS_Subset
  <2>2. SumFunctionOnSet(AmountOf, S \ {m}) \in Nat
    BY <2>1, SumIsNat
  <2>3. SumFunctionOnSet(AmountOf, S) = AmountOf[m] + SumFunctionOnSet(AmountOf, S \ {m})
    BY <1>1, SumRemoves
  <2> QED  BY <1>1, <2>2, <2>3
<1> QED  BY <1>2, <1>3

LEMMA PriceIsPositive == Price \in Nat \ {0}
<1>1. PICK m \in Milestones : AmountOf[m] \in Nat \ {0}
  BY GatewayAssumption
<1>2. Price \in Nat /\ AmountOf[m] <= Price
  BY GatewayAssumption, SumIsNat DEF Price
<1> QED  BY <1>1, <1>2

\* What the contract holds was deposited.
EscrowSound(e) ==
    /\ e \in [type : EscrowTypes, balance : Nat, deposited : Nat, flags : SUBSET MilestoneFlags,
              milestones : [Milestones -> SUBSET MilestoneFlags]]
    /\ e.balance > 0 => e.deposited > 0

\* A transaction, or a request about to ask for one.
Bounded(x) == x.total \in Nat /\ x.milestone \in Milestones

\* What the gateway builds of its own; what prepare builds is only bounded.
Guarded(x) == Bounded(x) /\ (x.op = "evidence" => escrow.deposited > 0)

XdrSound(x) == IF x.prepared THEN Bounded(x) ELSE Guarded(x)

GatewaySound(c) ==
    /\ c.pc \in {"check_funded", "read_escrow", "check_recipients"} => c.milestone \in Milestones
    /\ c.pc = "check_recipients" => c.total \in Nat
    /\ c.pc = "relay" => Guarded(c)
    /\ c.pc = "prepare" => Bounded(c)

GatewayInv ==
    /\ load \in Loads /\ served \in Nat
    /\ EscrowSound(escrow)
    /\ EvidenceAfterFunding
    /\ \A x \in xdrs : XdrSound(x)
    /\ call = [r \in Reqs |-> call[r]]
    /\ \A r \in Reqs : GatewaySound(call[r])

LEMMA IdleGatewaySound == GatewaySound(Idle)
  BY DEF GatewaySound, Idle

LEMMA GatewayInvInit == CallsInit /\ GatewayInit => GatewayInv
<1> SUFFICES ASSUME CallsInit, GatewayInit PROVE GatewayInv
  OBVIOUS
<1>1. EscrowSound(escrow)
  BY DEF GatewayInit, EscrowSound
<1>2. EvidenceAfterFunding
  BY DEF GatewayInit, EvidenceAfterFunding
<1> QED  BY <1>1, <1>2, IdleGatewaySound DEF CallsInit, GatewayInit, GatewayInv

\* A handler goes on, holding c, and the contract stays.
LEMMA GatewayHandlerMoves ==
  ASSUME GatewayInv, NEW r \in Reqs, NEW c, GatewaySound(c), call' = [call EXCEPT ![r] = c],
         load' = load, served' \in Nat, UNCHANGED <<escrow, raw>>, \A x \in xdrs' : XdrSound(x)
  PROVE  GatewayInv'
<1>1. /\ call' = [s \in Reqs |-> call'[s]]
      /\ call'[r] = c
      /\ \A s \in Reqs \ {r} : call'[s] = call[s]
  BY DEF GatewayInv
<1>2. \A s \in Reqs : GatewaySound(call'[s])
  BY <1>1 DEF GatewayInv
<1>3. \A x \in xdrs' : XdrSound(x)'
  BY DEF XdrSound, Guarded, Bounded
<1>4. \A s \in Reqs : GatewaySound(call[s])'
  BY <1>2 DEF GatewaySound, Guarded, Bounded
<1>5. EscrowSound(escrow)' /\ EvidenceAfterFunding'
  BY DEF GatewayInv, EscrowSound, EvidenceAfterFunding
<1> QED  BY <1>1, <1>3, <1>4, <1>5 DEF GatewayInv

LEMMA AwaitPreserves ==
  ASSUME GatewayInv, NEW r \in Reqs, NEW c, GatewaySound(c), Await(r, c),
         UNCHANGED <<escrow, xdrs, raw>>
  PROVE  GatewayInv'
<1>1. served' \in Nat /\ \A x \in xdrs' : XdrSound(x)
  BY DEF GatewayInv, Await
<1> QED  BY <1>1, GatewayHandlerMoves DEF Await

LEMMA BeginPreserves ==
  ASSUME GatewayInv, NEW r \in Reqs, NEW c, GatewaySound(c), Begin(r, c),
         UNCHANGED <<escrow, xdrs, raw>>
  PROVE  GatewayInv'
<1>1. served' \in Nat /\ \A x \in xdrs' : XdrSound(x)
  BY DEF GatewayInv, Begin
<1> QED  BY <1>1, GatewayHandlerMoves DEF Begin

\* Nothing a client asks for directly is evidence; the amounts are natural.
LEMMA WriteRequestPreserves ==
  ASSUME GatewayInv, NEW r \in Reqs, NEW op \in Ops, NEW m \in Milestones, WriteRequest(r, op, m)
  PROVE  GatewayInv'
<1>1. PICK amount \in CASE op = "fund" -> Deposits
                        [] op = "create" -> {served + 1}
                        [] OTHER -> {0} :
         Begin(r, [pc |-> "relay", op |-> op, milestone |-> m, total |-> amount,
                   recipients |-> {}])
  BY DEF WriteRequest
<1>2. amount \in Nat
  BY GatewayAssumption, PriceIsPositive, <1>1 DEF GatewayInv, Deposits
<1>3. PICK c : c = [pc |-> "relay", op |-> op, milestone |-> m, total |-> amount,
                    recipients |-> {}]
  OBVIOUS
<1>4. GatewaySound(c)
  BY <1>2, <1>3 DEF WriteRequest, GatewaySound, Guarded, Bounded
<1> QED  BY <1>1, <1>3, <1>4, BeginPreserves DEF WriteRequest, gatewayVars

\* Whatever is asked of prepare has a milestone and an amount.
LEMMA PreparePreserves ==
  ASSUME GatewayInv, NEW r \in Reqs, NEW op \in Ops, NEW m \in Milestones, NEW total \in Nat,
         NEW recipients, prepare(r, op, m, total, recipients)
  PROVE  GatewayInv'
<1>1. PICK c : c = [pc |-> "prepare", op |-> op, milestone |-> m, total |-> total,
                    recipients |-> recipients]
  OBVIOUS
<1>2. GatewaySound(c)
  BY <1>1 DEF GatewaySound, Bounded
<1> QED  BY <1>1, <1>2, BeginPreserves DEF prepare, gatewayVars

LEMMA PrepareAnswersPreserves ==
  ASSUME GatewayInv, NEW r \in Reqs, PrepareAnswers(r)
  PROVE  GatewayInv'
<1>1. Bounded(call[r]) /\ call[r].pc = "prepare"
  BY DEF PrepareAnswers, At, GatewayInv, GatewaySound
<1>2. XdrSound(XdrOf(call[r]))
  BY <1>1 DEF XdrSound, Bounded, XdrOf
<1>3. served' \in Nat /\ \A x \in xdrs' : XdrSound(x)
  BY <1>2 DEF PrepareAnswers, Done, Await, GatewayInv
<1> QED  BY <1>3, IdleGatewaySound, GatewayHandlerMoves DEF PrepareAnswers, Done, Await

\* The guard: evidence is relayed only when the contract holds something.
LEMMA FundedPreserves ==
  ASSUME GatewayInv, NEW r \in Reqs, assertEscrowFunded(r)
  PROVE  GatewayInv'
<1>1. CASE escrow.balance > 0
  <2>1. PICK c : c = [pc |-> "relay", op |-> "evidence", milestone |-> call[r].milestone,
                      total |-> 0, recipients |-> {}]
    OBVIOUS
  <2>2. GatewaySound(c)
    BY <1>1, <2>1 DEF assertEscrowFunded, At, GatewayInv, EscrowSound, GatewaySound, Guarded, Bounded
  <2> QED  BY <1>1, <2>1, <2>2, AwaitPreserves DEF assertEscrowFunded, gatewayVars
<1>2. CASE ~(escrow.balance > 0)
  BY <1>2, IdleGatewaySound, AwaitPreserves DEF assertEscrowFunded, Done, gatewayVars
<1> QED  BY <1>1, <1>2

LEMMA ReadEscrowPreserves ==
  ASSUME GatewayInv, NEW r \in Reqs, readEscrow(r)
  PROVE  GatewayInv'
<1>1. CASE Done(r)
  BY <1>1, IdleGatewaySound, AwaitPreserves DEF readEscrow, Done, gatewayVars
<1>2. CASE ~Done(r)
  <2>1. PICK known \in BOOLEAN :
          Await(r, [pc |-> "check_recipients", milestone |-> call[r].milestone,
                    recipients |-> call[r].recipients, read |-> escrow, known |-> known,
                    total |-> resolutionTotal(escrow, call[r].milestone)])
    BY <1>2 DEF readEscrow
  <2>2. PICK c : c = [pc |-> "check_recipients", milestone |-> call[r].milestone,
                      recipients |-> call[r].recipients, read |-> escrow, known |-> known,
                      total |-> resolutionTotal(escrow, call[r].milestone)]
    OBVIOUS
  <2>3. resolutionTotal(escrow, call[r].milestone) \in Nat
    BY GatewayAssumption DEF readEscrow, At, resolutionTotal, GatewayInv, EscrowSound, GatewaySound
  <2>4. GatewaySound(c)
    BY <2>2, <2>3 DEF readEscrow, At, GatewayInv, GatewaySound
  <2> QED  BY <2>1, <2>2, <2>4, AwaitPreserves DEF readEscrow, gatewayVars
<1> QED  BY <1>1, <1>2

LEMMA RecipientsPreserves ==
  ASSUME GatewayInv, NEW r \in Reqs, assertRecipientsCanReceive(r)
  PROVE  GatewayInv'
<1>1. CASE call[r].recipients \subseteq Trusting
  <2>1. PICK c : c = [pc |-> "relay", op |-> "resolve", milestone |-> call[r].milestone,
                      recipients |-> call[r].recipients, total |-> call[r].total,
                      read |-> call[r].read, known |-> call[r].known]
    OBVIOUS
  <2>2. GatewaySound(c)
    BY <2>1 DEF assertRecipientsCanReceive, At, GatewayInv, GatewaySound, Guarded, Bounded
  <2> QED  BY <1>1, <2>1, <2>2, AwaitPreserves DEF assertRecipientsCanReceive, gatewayVars
<1>2. CASE ~(call[r].recipients \subseteq Trusting)
  BY <1>2, IdleGatewaySound, AwaitPreserves DEF assertRecipientsCanReceive, Done, gatewayVars
<1> QED  BY <1>1, <1>2

LEMMA RelayPreserves ==
  ASSUME GatewayInv, NEW r \in Reqs,
         RelayAnswers(r) \/ RelayRefuses(r) \/ RelayFails(r) \/ EnqueueWrite(r)
  PROVE  GatewayInv'
<1>1. CASE RelayAnswers(r)
  <2>1. XdrSound(XdrOf(call[r]))
    BY <1>1 DEF RelayAnswers, At, GatewayInv, GatewaySound, XdrSound, Guarded, Bounded, XdrOf
  <2>2. served' \in Nat /\ \A x \in xdrs' : XdrSound(x)
    BY <1>1, <2>1 DEF RelayAnswers, Done, Await, GatewayInv
  <2> QED  BY <1>1, <2>2, IdleGatewaySound, GatewayHandlerMoves DEF RelayAnswers, Done, Await
<1>2. CASE RelayRefuses(r)
  BY <1>2, IdleGatewaySound, AwaitPreserves DEF RelayRefuses, Done, gatewayVars
<1>3. CASE RelayFails(r)
  <2>1. PICK c : /\ c = IF call[r].op = "dispute" THEN Idle
                        ELSE [pc |-> "enqueue", key |-> KeyOf(call[r])]
    OBVIOUS
  <2>2. GatewaySound(c)
    BY <2>1 DEF GatewaySound, Idle
  <2>3. call' = [call EXCEPT ![r] = c] /\ UNCHANGED <<escrow, xdrs, raw, load, served>>
    BY <1>3, <2>1 DEF RelayFails, gatewayVars
  <2>4. served' \in Nat /\ \A x \in xdrs' : XdrSound(x)
    BY <2>3 DEF GatewayInv
  <2> QED  BY <2>2, <2>3, <2>4, GatewayHandlerMoves
<1>4. CASE EnqueueWrite(r)
  BY <1>4, IdleGatewaySound, AwaitPreserves DEF EnqueueWrite, Done
<1> QED  BY <1>1, <1>2, <1>3, <1>4

\* The contract runs a transaction: nothing is ever taken out of deposited.
LEMMA ExecutedSound ==
  ASSUME EscrowSound(escrow), NEW x, Bounded(x)
  PROVE  /\ EscrowSound(Executed(escrow, x))
         /\ Executed(escrow, x).deposited >= escrow.deposited
         /\ \A n \in Milestones : "evidence" \in Executed(escrow, x).milestones[n] =>
              "evidence" \in escrow.milestones[n] \/ x.op = "evidence"
<1> DEFINE e == Executed(escrow, x)
           m == x.milestone
<1>1. PICK s : s = escrow
  OBVIOUS
<1>2. /\ s \in [type : EscrowTypes, balance : Nat, deposited : Nat, flags : SUBSET MilestoneFlags,
                milestones : [Milestones -> SUBSET MilestoneFlags]]
      /\ s.balance > 0 => s.deposited > 0
  BY <1>1 DEF EscrowSound
<1>3. CASE e = s
  BY <1>1, <1>3 DEF EscrowSound
<1>4. CASE x.op = "fund"
  <2>1. e = [s EXCEPT !.balance = @ + x.total, !.deposited = @ + x.total]
    BY <1>1, <1>4 DEF Executed
  <2>2. PICK t : t = x.total
    OBVIOUS
  <2>3. t \in Nat
    BY <2>2 DEF Bounded
  <2>4. e = [type |-> s.type, balance |-> s.balance + t, deposited |-> s.deposited + t,
             flags |-> s.flags, milestones |-> s.milestones]
    BY <1>2, <2>1, <2>2
  <2>5. EscrowSound(e) /\ e.deposited >= s.deposited /\ e.milestones = s.milestones
    BY <1>2, <2>3, <2>4 DEF EscrowSound
  <2> QED  BY <1>1, <2>5
<1>5. CASE x.op \in {"approve", "evidence"}
  <2>1. CASE e = s
    BY <1>3, <2>1
  <2>2. CASE e # s
    <3>1. PICK flag \in MilestoneFlags :
            /\ e = [s EXCEPT !.milestones[m] = @ \cup {flag}]
            /\ flag = "evidence" => x.op = "evidence"
      <4>1. CASE x.op = "approve"
        <5>1. e = [s EXCEPT !.milestones[m] = @ \cup {"approved"}]
          BY <1>1, <4>1 DEF Executed
        <5> QED  BY <5>1 DEF MilestoneFlags
      <4>2. CASE x.op = "evidence"
        <5>1. e = [s EXCEPT !.milestones[m] = @ \cup {"evidence"}]
          BY <1>1, <2>2, <4>2 DEF Executed
        <5> QED  BY <4>2, <5>1 DEF MilestoneFlags
      <4> QED  BY <1>5, <4>1, <4>2
    <3>2. PICK ms : ms = [s.milestones EXCEPT ![m] = @ \cup {flag}]
      OBVIOUS
    <3>3. /\ ms \in [Milestones -> SUBSET MilestoneFlags]
          /\ \A n \in Milestones : "evidence" \in ms[n] =>
               "evidence" \in s.milestones[n] \/ x.op = "evidence"
      BY <1>2, <3>1, <3>2
    <3>4. e = [s EXCEPT !.milestones = ms]
      BY <1>2, <3>1, <3>2
    <3> QED  BY <1>1, <1>2, <3>3, <3>4 DEF EscrowSound
  <2> QED  BY <2>1, <2>2
<1>6. ASSUME NEW flag \in {"disputed", "released", "resolved"}, NEW b \in Nat,
             e = [Mark(s, m, flag) EXCEPT !.balance = b], b <= s.balance
      PROVE  /\ EscrowSound(e) /\ e.deposited = s.deposited
             /\ \A n \in Milestones : "evidence" \in e.milestones[n] =>
                  "evidence" \in s.milestones[n]
  <2>1. PICK ms : ms = IF s.type = "single-release" THEN s.milestones
                       ELSE [s.milestones EXCEPT ![m] = @ \cup {flag}]
    OBVIOUS
  <2>2. PICK fs : fs = IF s.type = "single-release" THEN s.flags \cup {flag} ELSE s.flags
    OBVIOUS
  <2>3. /\ ms \in [Milestones -> SUBSET MilestoneFlags]
        /\ \A n \in Milestones : "evidence" \in ms[n] => "evidence" \in s.milestones[n]
    BY <1>2, <2>1 DEF MilestoneFlags
  <2>4. fs \in SUBSET MilestoneFlags
    BY <1>2, <2>2 DEF MilestoneFlags
  <2>5. e = [type |-> s.type, balance |-> b, deposited |-> s.deposited, flags |-> fs,
             milestones |-> ms]
    <3>1. CASE s.type = "single-release"
      BY <1>2, <1>6, <2>1, <2>2, <3>1 DEF Mark
    <3>2. CASE s.type # "single-release"
      BY <1>2, <1>6, <2>1, <2>2, <3>2 DEF Mark
    <3> QED  BY <3>1, <3>2
  <2>6. e.deposited = s.deposited /\ e.balance = b /\ e.milestones = ms
    BY <2>5
  <2> QED  BY <1>2, <1>6, <2>3, <2>4, <2>5, <2>6 DEF EscrowSound
<1>7. CASE x.op = "dispute" /\ e # s
  <2>1. e = Mark(s, m, "disputed")
    BY <1>1, <1>7 DEF Executed
  <2>2. e = [Mark(s, m, "disputed") EXCEPT !.balance = s.balance]
    BY <1>2, <2>1 DEF Mark
  <2> QED  BY <1>1, <1>2, <1>6, <2>2
<1>8. CASE x.op = "release" /\ e # s
  <2>1. /\ MayRelease(s, m)
        /\ e = [Mark(s, m, "released") EXCEPT !.balance =
                  IF s.type = "single-release" THEN 0 ELSE @ - AmountOf[m]]
    BY <1>1, <1>8 DEF Executed
  <2>2. Mark(s, m, "released").balance = s.balance
    BY <1>2 DEF Mark
  <2>3. PICK b : b = IF s.type = "single-release" THEN 0 ELSE s.balance - AmountOf[m]
    OBVIOUS
  <2>4. e = [Mark(s, m, "released") EXCEPT !.balance = b]
    BY <2>1, <2>2, <2>3
  <2>5. b \in Nat /\ b <= s.balance
    BY GatewayAssumption, <1>2, <2>1, <2>3 DEF MayRelease, Bounded
  <2> QED  BY <1>1, <1>2, <1>6, <2>4, <2>5
<1>9. CASE x.op = "resolve" /\ e # s
  <2>1. MayResolve(s, x) /\ e = [Mark(s, m, "resolved") EXCEPT !.balance = @ - x.total]
    BY <1>1, <1>9 DEF Executed
  <2>2. Mark(s, m, "resolved").balance = s.balance
    BY <1>2 DEF Mark
  <2>3. PICK b : b = s.balance - x.total
    OBVIOUS
  <2>4. b \in Nat /\ b <= s.balance
    BY <1>2, <2>1, <2>3 DEF MayResolve, Bounded
  <2>5. e = [Mark(s, m, "resolved") EXCEPT !.balance = b]
    BY <2>1, <2>2, <2>3
  <2> QED  BY <1>1, <1>2, <1>6, <2>4, <2>5
<1>10. e = s \/ x.op \in {"fund", "approve", "evidence", "dispute", "release", "resolve"}
  BY <1>1 DEF Executed
<1> QED  BY <1>3, <1>4, <1>5, <1>7, <1>8, <1>9, <1>10

LEMMA SendPreserves ==
  ASSUME GatewayInv, NEW x, sendTransaction(x)
  PROVE  GatewayInv'
<1>1. x \in xdrs /\ XdrSound(x) /\ Bounded(x) /\ EscrowSound(escrow)
  BY DEF sendTransaction, GatewayInv, XdrSound, Guarded
<1>2. PICK e : e = Executed(escrow, x)
  OBVIOUS
<1>3. /\ EscrowSound(e) /\ e.deposited >= escrow.deposited
      /\ \A n \in Milestones : "evidence" \in e.milestones[n] =>
           "evidence" \in escrow.milestones[n] \/ x.op = "evidence"
  BY <1>1, <1>2, ExecutedSound
<1>4. /\ escrow' = e /\ xdrs' \subseteq xdrs /\ UNCHANGED <<call, load, served>>
      /\ raw \subseteq raw' /\ (x.prepared => x.op \in raw')
  BY <1>2 DEF sendTransaction, callVars
<1>5. escrow.deposited > 0 => e.deposited > 0
  BY <1>1, <1>3 DEF EscrowSound
<1>6. EscrowSound(escrow)'
  BY <1>3, <1>4 DEF EscrowSound
<1>7. \A y \in xdrs' : XdrSound(y)'
  BY <1>4, <1>5 DEF GatewayInv, XdrSound, Guarded, Bounded
<1>8. \A r \in Reqs : GatewaySound(call[r])'
  BY <1>4, <1>5 DEF GatewayInv, GatewaySound, Guarded, Bounded
<1>9. EvidenceAfterFunding'
  <2>1. x.op = "evidence" => escrow.deposited > 0 \/ "evidence" \in raw'
    BY <1>1, <1>4 DEF XdrSound, Guarded
  <2>2. \A n \in Milestones : "evidence" \in escrow.milestones[n] =>
          escrow.deposited > 0 \/ "evidence" \in raw
    BY DEF GatewayInv, EvidenceAfterFunding
  <2> QED  BY <1>3, <1>4, <1>5, <2>1, <2>2 DEF EvidenceAfterFunding
<1> QED  BY <1>4, <1>6, <1>7, <1>8, <1>9 DEF GatewayInv

LEMMA GatewayInvNext == GatewayInv /\ [GatewayNext]_<<gatewayVars, callVars>> => GatewayInv'
<1> SUFFICES ASSUME GatewayInv, [GatewayNext]_<<gatewayVars, callVars>> PROVE GatewayInv'
  OBVIOUS
<1>1. ASSUME UNCHANGED <<escrow, xdrs, raw, callVars>> PROVE GatewayInv'
  BY <1>1 DEF callVars, GatewayInv, EscrowSound, EvidenceAfterFunding, XdrSound, Guarded,
              Bounded, GatewaySound
<1>2. CASE UNCHANGED <<gatewayVars, callVars>>
  BY <1>1, <1>2 DEF gatewayVars
<1>3. ASSUME NEW r \in Reqs, NEW m \in Milestones, NEW op \in Ops, WriteRequest(r, op, m)
      PROVE  GatewayInv'
  BY <1>3, WriteRequestPreserves
<1>4. ASSUME NEW r \in Reqs, NEW m \in Milestones, changeMilestoneStatus(r, m)
      PROVE  GatewayInv'
  <2>1. PICK c : c = [pc |-> "check_funded", milestone |-> m]
    OBVIOUS
  <2>2. GatewaySound(c)
    BY <2>1 DEF GatewaySound
  <2> QED  BY <1>4, <2>1, <2>2, BeginPreserves DEF changeMilestoneStatus, gatewayVars
<1>5. ASSUME NEW r \in Reqs, NEW m \in Milestones, NEW type \in EscrowTypes,
             NEW recipients \in SUBSET Parties, resolveDispute(r, type, m, recipients)
      PROVE  GatewayInv'
  <2>1. PICK c : c = [pc |-> "read_escrow", type |-> type, milestone |-> m,
                      recipients |-> recipients]
    OBVIOUS
  <2>2. GatewaySound(c)
    BY <2>1 DEF GatewaySound
  <2> QED  BY <1>5, <2>1, <2>2, BeginPreserves DEF resolveDispute, gatewayVars
<1>6. ASSUME NEW r \in Reqs, assertEscrowFunded(r) PROVE GatewayInv'
  BY <1>6, FundedPreserves
<1>7. ASSUME NEW r \in Reqs, readEscrow(r) PROVE GatewayInv'
  BY <1>7, ReadEscrowPreserves
<1>8. ASSUME NEW r \in Reqs, assertRecipientsCanReceive(r) PROVE GatewayInv'
  BY <1>8, RecipientsPreserves
<1>9. ASSUME NEW r \in Reqs,
             RelayAnswers(r) \/ RelayRefuses(r) \/ RelayFails(r) \/ EnqueueWrite(r)
      PROVE  GatewayInv'
  BY <1>9, RelayPreserves
<1>10. ASSUME NEW key \in Keys, ReplayStarts(key) \/ ReplayAnswered(key) \/ ReplayThrows(key)
       PROVE  GatewayInv'
  BY <1>1, <1>10 DEF ReplayStarts, ReplayAnswered, ReplayThrows
<1>11. ASSUME NEW x \in xdrs, sendTransaction(x) PROVE GatewayInv'
  BY <1>11, SendPreserves
<1>12. ASSUME NEW r \in Reqs, NEW m \in Milestones, NEW op \in Ops, NEW total \in 0..Price,
              NEW recipients \in SUBSET Parties, prepare(r, op, m, total, recipients)
       PROVE  GatewayInv'
  BY <1>12, PriceIsPositive, PreparePreserves
<1>13. ASSUME NEW r \in Reqs, PrepareAnswers(r) PROVE GatewayInv'
  BY <1>13, PrepareAnswersPreserves
<1> QED
  BY <1>2, <1>3, <1>4, <1>5, <1>6, <1>7, <1>8, <1>9, <1>10, <1>11, <1>12, <1>13
  DEF GatewayNext

\* However requests, failures, replays and late signatures mix, no evidence
\* reaches the contract of an escrow that was never funded, unless prepare
\* built it, which asks no guard.  The guard assertEscrowFunded reads the
\* balance, and what it lets through may be signed any time later: what makes
\* that safe is that the balance is part of what was deposited, and that
\* deposits are never undone.
THEOREM EvidenceIsFunded == GatewaySpec => []EvidenceAfterFunding
<1>1. GatewayInv => EvidenceAfterFunding
  BY DEF GatewayInv
<1> QED  BY <1>1, GatewayInvInit, GatewayInvNext, PTL DEF GatewaySpec

(***************************************************************************)
(* Resolutions.  What readEscrow and assertResolvable decide is decided    *)
(* about the escrow as it was read, which the request keeps in read.       *)
(***************************************************************************)

\* The contract, as it was read, would pay this total out.
Payable(c) ==
    c.known /\ c.read.balance > 0 =>
        MayResolve(c.read, [milestone |-> c.milestone, total |-> c.total, recipients |-> {}])

DecidedWell(c) ==
    /\ c.pc = "check_recipients" => Payable(c)
    /\ c.pc = "relay" /\ c.op = "resolve" => Payable(c) /\ c.recipients \subseteq Trusting

\* assertResolvable does not ask whether a single-release escrow has been
\* released: the contract does not release one that is disputed, nor disputes
\* one that is released.
FlagsApart(e) ==
    e.type = "single-release" => "disputed" \notin e.flags \/ "released" \notin e.flags

ResolutionInv ==
    /\ GatewayInv
    /\ FlagsApart(escrow)
    /\ \A r \in Reqs : DecidedWell(call[r])

\* The contract runs a transaction.
LEMMA ExecutedApart ==
  ASSUME EscrowSound(escrow), FlagsApart(escrow), NEW x
  PROVE  FlagsApart(Executed(escrow, x))
<1>1. PICK s, e, m : s = escrow /\ e = Executed(escrow, x) /\ m = x.milestone
  OBVIOUS
<1>2. s \in [type : EscrowTypes, balance : Nat, deposited : Nat, flags : SUBSET MilestoneFlags,
             milestones : [Milestones -> SUBSET MilestoneFlags]]
  BY <1>1 DEF EscrowSound
<1>3. CASE e.type = s.type /\ e.flags = s.flags
  BY <1>1, <1>3 DEF FlagsApart
<1>4. ASSUME NEW flag, NEW marked, marked = Mark(s, m, flag)
      PROVE  /\ marked.type = s.type
             /\ s.type = "single-release" => marked.flags = s.flags \cup {flag}
             /\ s.type # "single-release" => marked.flags = s.flags
             /\ \A b : /\ [marked EXCEPT !.balance = b].type = marked.type
                       /\ [marked EXCEPT !.balance = b].flags = marked.flags
  <2>1. CASE s.type = "single-release"
    BY <1>2, <1>4, <2>1 DEF Mark
  <2>2. CASE s.type # "single-release"
    BY <1>2, <1>4, <2>2 DEF Mark
  <2> QED  BY <2>1, <2>2
<1>5. CASE x.op \in {"create", "fund", "approve", "evidence"}
  <2>1. e \in {s, [s EXCEPT !.balance = @ + x.total, !.deposited = @ + x.total],
               [s EXCEPT !.milestones[m] = @ \cup {"approved"}],
               [s EXCEPT !.milestones[m] = @ \cup {"evidence"}]}
    BY <1>1, <1>5 DEF Executed
  <2> QED  BY <1>2, <1>3, <2>1
<1>6. CASE x.op = "dispute" /\ MayDispute(s, m)
  <2>1. e = Mark(s, m, "disputed")
    BY <1>1, <1>6 DEF Executed
  <2>2. /\ e.type = s.type
        /\ s.type = "single-release" => e.flags = s.flags \cup {"disputed"}
    BY <1>4, <2>1
  <2>3. s.type = "single-release" => "released" \notin s.flags
    BY <1>6 DEF MayDispute, SettledWhole
  <2> QED  BY <1>1, <2>2, <2>3 DEF FlagsApart
<1>7. CASE x.op = "release" /\ MayRelease(s, m)
  <2>1. PICK marked : marked = Mark(s, m, "released")
    OBVIOUS
  <2>2. PICK b : e = [marked EXCEPT !.balance = b]
    BY <1>1, <1>7, <2>1 DEF Executed
  <2>3. /\ e.type = s.type
        /\ s.type = "single-release" => e.flags = s.flags \cup {"released"}
    BY <1>4, <2>1, <2>2
  <2>4. s.type = "single-release" => "disputed" \notin s.flags
    BY <1>7 DEF MayRelease
  <2> QED  BY <1>1, <2>3, <2>4 DEF FlagsApart
<1>8. CASE x.op = "resolve" /\ MayResolve(s, x)
  <2>1. PICK marked : marked = Mark(s, m, "resolved")
    OBVIOUS
  <2>2. PICK b : e = [marked EXCEPT !.balance = b]
    BY <1>1, <1>8, <2>1 DEF Executed
  <2>3. /\ e.type = s.type
        /\ s.type = "single-release" => e.flags = s.flags \cup {"resolved"}
    BY <1>4, <2>1, <2>2
  <2> QED  BY <1>1, <2>3 DEF FlagsApart
<1>9. \/ e = s
      \/ x.op \in {"create", "fund", "approve", "evidence"}
      \/ x.op = "dispute" /\ MayDispute(s, m)
      \/ x.op = "release" /\ MayRelease(s, m)
      \/ x.op = "resolve" /\ MayResolve(s, x)
  BY <1>1 DEF Executed
<1> QED  BY <1>3, <1>5, <1>6, <1>7, <1>8, <1>9

\* A handler goes on in c.
LEMMA DecidesWell ==
  ASSUME ResolutionInv, GatewayInv', NEW r \in Reqs, NEW c, call' = [call EXCEPT ![r] = c],
         UNCHANGED escrow, DecidedWell(c)
  PROVE  ResolutionInv'
<1>1. \A s \in Reqs : call'[s] = IF s = r THEN c ELSE call[s]
  BY DEF ResolutionInv, GatewayInv
<1>2. \A s \in Reqs : DecidedWell(call'[s])
  BY <1>1 DEF ResolutionInv
<1>3. FlagsApart(escrow)'
  BY DEF ResolutionInv, FlagsApart
<1> QED  BY <1>2, <1>3 DEF ResolutionInv, DecidedWell, Payable

LEMMA IdleDecided == DecidedWell(Idle)
  BY DEF DecidedWell, Idle

\* What is read of the escrow, and what is decided about it, go together.
LEMMA ReadEscrowDecides ==
  ASSUME ResolutionInv, GatewayInv', NEW r \in Reqs, readEscrow(r)
  PROVE  ResolutionInv'
<1>1. CASE Done(r)
  BY <1>1, IdleDecided, DecidesWell DEF readEscrow, Done, Await, gatewayVars
<1>2. CASE ~Done(r)
  <2>0. PICK known \in BOOLEAN :
          /\ assertResolvable(escrow, call[r].type, call[r].milestone, known)
          /\ Await(r, [pc |-> "check_recipients", milestone |-> call[r].milestone,
                       recipients |-> call[r].recipients, read |-> escrow, known |-> known,
                       total |-> resolutionTotal(escrow, call[r].milestone)])
    BY <1>2 DEF readEscrow
  <2>1. PICK e, m, type, total :
          /\ e = escrow /\ m = call[r].milestone /\ type = call[r].type
          /\ total = resolutionTotal(e, m)
          /\ assertResolvable(e, type, m, known)
          /\ Await(r, [pc |-> "check_recipients", milestone |-> m,
                       recipients |-> call[r].recipients, read |-> e, known |-> known,
                       total |-> total])
    BY <2>0
  <2>2. PICK c : c = [pc |-> "check_recipients", milestone |-> m,
                      recipients |-> call[r].recipients, read |-> e, known |-> known,
                      total |-> total]
    OBVIOUS
  <2>3. e.balance \in Nat /\ m \in Milestones /\ AmountOf[m] \in Nat
    BY <2>1, GatewayAssumption
       DEF ResolutionInv, GatewayInv, EscrowSound, readEscrow, At, GatewaySound
  <2>4. ASSUME e.type = "single-release" PROVE DecidedWell(c)
    <3>1. "disputed" \in e.flags /\ "resolved" \notin e.flags /\ "released" \notin e.flags
      BY <2>1, <2>4 DEF assertResolvable, ResolutionInv, FlagsApart
    <3>2. total = e.balance
      BY <2>1, <2>4 DEF resolutionTotal
    <3>3. Payable(c)
      BY <2>2, <2>4, <3>1, <3>2 DEF Payable, MayResolve, SettledWhole
    <3> QED  BY <2>2, <3>3 DEF DecidedWell
  <2>5. ASSUME e.type # "single-release" PROVE DecidedWell(c)
    <3>1. known => "disputed" \in e.milestones[m] /\ ~Settled(e, m)
      BY <2>1, <2>5 DEF assertResolvable
    <3>2. e.balance > 0 => total <= e.balance
      BY <2>1, <2>3, <2>5 DEF resolutionTotal
    <3>3. Payable(c)
      BY <2>2, <2>5, <3>1, <3>2 DEF Payable, MayResolve
    <3> QED  BY <2>2, <3>3 DEF DecidedWell
  <2>6. DecidedWell(c)
    BY <2>4, <2>5
  <2>7. call' = [call EXCEPT ![r] = c] /\ UNCHANGED escrow
    BY <2>1, <2>2 DEF readEscrow, Await, gatewayVars
  <2> QED  BY <2>6, <2>7, DecidesWell
<1> QED  BY <1>1, <1>2

LEMMA RecipientsDecide ==
  ASSUME ResolutionInv, GatewayInv', NEW r \in Reqs, assertRecipientsCanReceive(r)
  PROVE  ResolutionInv'
<1>1. CASE call[r].recipients \subseteq Trusting
  <2>1. PICK c : c = [pc |-> "relay", op |-> "resolve", milestone |-> call[r].milestone,
                      recipients |-> call[r].recipients, total |-> call[r].total,
                      read |-> call[r].read, known |-> call[r].known]
    OBVIOUS
  <2>2. Payable(call[r])
    BY DEF assertRecipientsCanReceive, At, ResolutionInv, DecidedWell
  <2>3. DecidedWell(c)
    <3>1. PICK d : d = call[r]
      OBVIOUS
    <3>2. /\ c.known = d.known /\ c.read = d.read /\ c.milestone = d.milestone
          /\ c.total = d.total /\ c.recipients = d.recipients /\ c.pc = "relay"
      BY <2>1, <3>1
    <3>3. Payable(d)
      BY <2>2, <3>1
    <3>4. Payable(c)
      BY <3>2, <3>3 DEF Payable
    <3> QED  BY <1>1, <3>1, <3>2, <3>4 DEF DecidedWell
  <2>4. call' = [call EXCEPT ![r] = c] /\ UNCHANGED escrow
    BY <1>1, <2>1 DEF assertRecipientsCanReceive, Await, gatewayVars
  <2> QED  BY <2>3, <2>4, DecidesWell
<1>2. CASE ~(call[r].recipients \subseteq Trusting)
  BY <1>2, IdleDecided, DecidesWell DEF assertRecipientsCanReceive, Done, Await, gatewayVars
<1> QED  BY <1>1, <1>2

\* The handlers that decide nothing about a resolution.
LEMMA OthersDecide ==
  ASSUME ResolutionInv, GatewayInv', NEW r \in Reqs, NEW c, call' = [call EXCEPT ![r] = c],
         UNCHANGED escrow, c.pc # "check_recipients", c.pc = "relay" => c.op # "resolve"
  PROVE  ResolutionInv'
  BY DecidesWell DEF DecidedWell

LEMMA ResolutionInvNext ==
  ResolutionInv /\ [GatewayNext]_<<gatewayVars, callVars>> => ResolutionInv'
<1> SUFFICES ASSUME ResolutionInv, [GatewayNext]_<<gatewayVars, callVars>> PROVE ResolutionInv'
  OBVIOUS
<1>0. GatewayInv'
  BY GatewayInvNext DEF ResolutionInv
<1>1. ASSUME UNCHANGED <<escrow, call>> PROVE ResolutionInv'
  BY <1>0, <1>1 DEF ResolutionInv, FlagsApart, DecidedWell, Payable
<1>2. CASE UNCHANGED <<gatewayVars, callVars>>
  BY <1>1, <1>2 DEF gatewayVars, callVars
<1>3. ASSUME NEW r \in Reqs, NEW m \in Milestones, NEW op \in Ops, WriteRequest(r, op, m)
      PROVE  ResolutionInv'
  <2>1. PICK amount : Begin(r, [pc |-> "relay", op |-> op, milestone |-> m, total |-> amount,
                                recipients |-> {}])
    BY <1>3 DEF WriteRequest
  <2>2. PICK c : c = [pc |-> "relay", op |-> op, milestone |-> m, total |-> amount,
                      recipients |-> {}]
    OBVIOUS
  <2>3. call' = [call EXCEPT ![r] = c] /\ UNCHANGED escrow
    BY <1>3, <2>1, <2>2 DEF WriteRequest, Begin, gatewayVars
  <2>4. c.pc # "check_recipients" /\ c.op # "resolve"
    BY <1>3, <2>2 DEF WriteRequest
  <2> QED  BY <1>0, <2>3, <2>4, OthersDecide
<1>4. ASSUME NEW r \in Reqs, NEW m \in Milestones, changeMilestoneStatus(r, m)
      PROVE  ResolutionInv'
  <2>1. PICK c : c = [pc |-> "check_funded", milestone |-> m]
    OBVIOUS
  <2>2. call' = [call EXCEPT ![r] = c] /\ UNCHANGED escrow
    BY <1>4, <2>1 DEF changeMilestoneStatus, Begin, gatewayVars
  <2>3. c.pc # "check_recipients" /\ c.pc # "relay"
    BY <2>1
  <2> QED  BY <1>0, <2>2, <2>3, OthersDecide
<1>5. ASSUME NEW r \in Reqs, NEW m \in Milestones, NEW type \in EscrowTypes,
             NEW recipients \in SUBSET Parties, resolveDispute(r, type, m, recipients)
      PROVE  ResolutionInv'
  <2>1. PICK c : c = [pc |-> "read_escrow", type |-> type, milestone |-> m,
                      recipients |-> recipients]
    OBVIOUS
  <2>2. call' = [call EXCEPT ![r] = c] /\ UNCHANGED escrow
    BY <1>5, <2>1 DEF resolveDispute, Begin, gatewayVars
  <2>3. c.pc # "check_recipients" /\ c.pc # "relay"
    BY <2>1
  <2> QED  BY <1>0, <2>2, <2>3, OthersDecide
<1>6. ASSUME NEW r \in Reqs, assertEscrowFunded(r) PROVE ResolutionInv'
  <2>1. PICK c : /\ c = Idle \/ c = [pc |-> "relay", op |-> "evidence",
                                     milestone |-> call[r].milestone, total |-> 0,
                                     recipients |-> {}]
                 /\ call' = [call EXCEPT ![r] = c] /\ UNCHANGED escrow
    BY <1>6 DEF assertEscrowFunded, Done, Await, gatewayVars
  <2>2. c.pc # "check_recipients" /\ (c.pc = "relay" => c.op # "resolve")
    BY <2>1 DEF Idle
  <2> QED  BY <1>0, <2>1, <2>2, OthersDecide
<1>7. ASSUME NEW r \in Reqs,
             RelayAnswers(r) \/ RelayRefuses(r) \/ RelayFails(r) \/ EnqueueWrite(r)
      PROVE  ResolutionInv'
  <2>1. PICK c : /\ c = Idle \/ c = [pc |-> "enqueue", key |-> KeyOf(call[r])]
                 /\ call' = [call EXCEPT ![r] = c] /\ UNCHANGED escrow
    BY <1>7 DEF RelayAnswers, RelayRefuses, RelayFails, EnqueueWrite, Done, Await, gatewayVars
  <2>2. c.pc # "check_recipients" /\ c.pc # "relay"
    BY <2>1 DEF Idle
  <2> QED  BY <1>0, <2>1, <2>2, OthersDecide
<1>8. ASSUME NEW key \in Keys, ReplayStarts(key) \/ ReplayAnswered(key) \/ ReplayThrows(key)
      PROVE  ResolutionInv'
  BY <1>1, <1>8 DEF ReplayStarts, ReplayAnswered, ReplayThrows, callVars
<1>9. ASSUME NEW x \in xdrs, sendTransaction(x) PROVE ResolutionInv'
  <2>1. PICK e : e = Executed(escrow, x) /\ escrow' = e /\ UNCHANGED call
    BY <1>9 DEF sendTransaction, callVars
  <2>2. FlagsApart(e)
    BY <2>1, ExecutedApart DEF ResolutionInv, GatewayInv
  <2> QED  BY <1>0, <2>1, <2>2 DEF ResolutionInv, FlagsApart, DecidedWell, Payable
<1>10. ASSUME NEW r \in Reqs, NEW m \in Milestones, NEW op \in Ops, NEW total \in 0..Price,
              NEW recipients \in SUBSET Parties, prepare(r, op, m, total, recipients)
       PROVE  ResolutionInv'
  <2>1. PICK c : c = [pc |-> "prepare", op |-> op, milestone |-> m, total |-> total,
                      recipients |-> recipients]
    OBVIOUS
  <2>2. call' = [call EXCEPT ![r] = c] /\ UNCHANGED escrow
    BY <1>10, <2>1 DEF prepare, Begin, gatewayVars
  <2>3. c.pc # "check_recipients" /\ c.pc # "relay"
    BY <2>1
  <2> QED  BY <1>0, <2>2, <2>3, OthersDecide
<1>11. ASSUME NEW r \in Reqs, PrepareAnswers(r) PROVE ResolutionInv'
  BY <1>0, <1>11, IdleDecided, DecidesWell DEF PrepareAnswers, Done, Await
<1> QED
  BY <1>0, <1>2, <1>3, <1>4, <1>5, <1>6, <1>7, <1>8, <1>9, <1>10, <1>11, ReadEscrowDecides,
     RecipientsDecide
  DEF GatewayNext

LEMMA ResolutionInvInit == CallsInit /\ GatewayInit => ResolutionInv
<1> SUFFICES ASSUME CallsInit, GatewayInit PROVE ResolutionInv
  OBVIOUS
<1>1. FlagsApart(escrow)
  BY DEF GatewayInit, FlagsApart
<1> QED  BY <1>1, GatewayInvInit, IdleDecided DEF CallsInit, ResolutionInv

\* What waits for the relay is acceptable to the contract as it was read.
LEMMA AcceptableAsRead ==
  ASSUME ResolutionInv, NEW r \in Reqs, At(r, "relay"), call[r].op = "resolve",
         call[r].known, call[r].read.balance > 0
  PROVE  MayResolve(call[r].read, XdrOf(call[r]))
<1>1. PICK c : c = call[r]
  OBVIOUS
<1>2. Payable(c) /\ c.recipients \subseteq Trusting
  BY <1>1 DEF At, ResolutionInv, DecidedWell
<1>3. PICK x, y : /\ x = XdrOf(c)
                  /\ y = [milestone |-> c.milestone, total |-> c.total, recipients |-> {}]
  OBVIOUS
<1>4. /\ x.milestone = c.milestone /\ x.total = c.total /\ x.recipients = c.recipients
      /\ y.milestone = c.milestone /\ y.total = c.total
  BY <1>3 DEF XdrOf
<1>5. MayResolve(c.read, y)
  BY <1>1, <1>2, <1>3 DEF Payable
<1> QED  BY <1>1, <1>2, <1>3, <1>4, <1>5 DEF MayResolve

\* A resolution handed out for signing is one the contract would have accepted
\* as the escrow was read: the amount is there, the milestone is disputed and
\* not settled, and every recipient can receive the asset.  The escrow may have
\* changed since it was read; that it was disputed and not released then is
\* what the contract's own rules make of assertResolvable.
THEOREM ResolutionsAreAcceptable == GatewaySpec => ResolutionIsAcceptable
<1>1. ResolutionInv => [\A r \in Reqs :
         /\ At(r, "relay") /\ call[r].op = "resolve" /\ call'[r] = Idle
         /\ call[r].known /\ call[r].read.balance > 0
         => MayResolve(call[r].read, XdrOf(call[r]))]_xdrs
  BY AcceptableAsRead
<1> QED  BY <1>1, ResolutionInvInit, ResolutionInvNext, PTL DEF GatewaySpec, ResolutionIsAcceptable

(***************************************************************************)
(* What is reserved for the milestones that are not settled.               *)
(***************************************************************************)

Unsettled(e) == {m \in Milestones : ~Settled(e, m)}

\* Whatever has been paid out was paid for a milestone that is settled now,
\* and no more than its amount: so it is until a resolution of another total,
\* built by prepare, is sent.
Reserved(e) ==
    e.type = "multi-release" =>
        e.balance + Price >= e.deposited + SumFunctionOnSet(AmountOf, Unsettled(e))

\* A resolution, whenever it is signed, takes no more than its milestone's.
Capped(x) == escrow.type = "multi-release" => x.total <= AmountOf[x.milestone]

DecidedCapped(c) ==
    c.pc = "check_recipients" \/ (c.pc = "relay" /\ c.op = "resolve") => Capped(c)

ReservedInv ==
    /\ GatewayInv
    /\ "resolve" \in raw \/ Reserved(escrow)
    /\ \A x \in xdrs : x.op = "resolve" => x.prepared \/ Capped(x)
    /\ \A r \in Reqs : DecidedCapped(call[r])

\* The milestone m is flagged.
Flagged(s, e, m, flag) ==
    /\ m \in Milestones
    /\ s.milestones \in [Milestones -> SUBSET MilestoneFlags]
    /\ e.milestones = [s.milestones EXCEPT ![m] = @ \cup {flag}]

LEMMA FlaggedUnsettled ==
  ASSUME NEW s, NEW e, NEW m, NEW flag, Flagged(s, e, m, flag)
  PROVE  /\ flag \in {"released", "resolved"} => Unsettled(e) = Unsettled(s) \ {m}
         /\ flag \notin {"released", "resolved"} => Unsettled(e) = Unsettled(s)
<1>1. \A n \in Milestones :
        e.milestones[n] = IF n = m THEN s.milestones[n] \cup {flag} ELSE s.milestones[n]
  BY DEF Flagged
<1>2. CASE flag \in {"released", "resolved"}
  BY <1>1, <1>2 DEF Unsettled, Settled
<1>3. CASE flag \notin {"released", "resolved"}
  <2>1. \A n \in Milestones : Settled(e, n) <=> Settled(s, n)
    BY <1>1, <1>3 DEF Settled
  <2> QED  BY <1>3, <2>1 DEF Unsettled
<1> QED  BY <1>2, <1>3

\* The contract runs a transaction: who is paid is settled.
LEMMA ExecutedReserved ==
  ASSUME EscrowSound(escrow), Reserved(escrow), NEW x, Bounded(x), x.op = "resolve" => Capped(x)
  PROVE  Reserved(Executed(escrow, x))
<1>1. PICK s, e, m : s = escrow /\ e = Executed(escrow, x) /\ m = x.milestone
  OBVIOUS
<1>2. /\ s \in [type : EscrowTypes, balance : Nat, deposited : Nat, flags : SUBSET MilestoneFlags,
                milestones : [Milestones -> SUBSET MilestoneFlags]]
      /\ m \in Milestones /\ x.total \in Nat
      /\ AmountOf[m] \in Nat /\ Price \in Nat
  BY <1>1, GatewayAssumption, PriceIsPositive DEF EscrowSound, Bounded
<1> SUFFICES ASSUME e.type = "multi-release"
             PROVE  e.balance + Price >= e.deposited + SumFunctionOnSet(AmountOf, Unsettled(e))
  BY <1>1 DEF Reserved
<1>3. ASSUME NEW b \in Nat, NEW d \in Nat, NEW paid \in Nat, s.type = "multi-release",
             e.balance = b, e.deposited = d, b + paid + s.deposited = d + s.balance,
             \/ Unsettled(e) = Unsettled(s) /\ paid = 0
             \/ m \in Unsettled(s) /\ Unsettled(e) = Unsettled(s) \ {m} /\ paid <= AmountOf[m]
      PROVE  e.balance + Price >= e.deposited + SumFunctionOnSet(AmountOf, Unsettled(e))
  <2>1. s.balance + Price >= s.deposited + SumFunctionOnSet(AmountOf, Unsettled(s))
    BY <1>1, <1>3 DEF Reserved
  <2>2. Unsettled(s) \in SUBSET Milestones
    BY DEF Unsettled
  <2>3. SumFunctionOnSet(AmountOf, Unsettled(s)) \in Nat
    BY <2>2, AmountsAddUp
  <2>4. CASE Unsettled(e) = Unsettled(s) /\ paid = 0
    BY <1>2, <1>3, <2>1, <2>3, <2>4
  <2>5. CASE m \in Unsettled(s) /\ Unsettled(e) = Unsettled(s) \ {m} /\ paid <= AmountOf[m]
    <3>1. /\ SumFunctionOnSet(AmountOf, Unsettled(e)) \in Nat
          /\ SumFunctionOnSet(AmountOf, Unsettled(s)) =
               SumFunctionOnSet(AmountOf, Unsettled(e)) + AmountOf[m]
      BY <2>2, <2>5, AmountsAddUp
    <3> QED  BY <1>2, <1>3, <2>1, <2>5, <3>1
  <2> QED  BY <1>3, <2>4, <2>5
<1>4. CASE e = s
  BY <1>2, <1>3, <1>4
<1>5. CASE x.op = "fund"
  <2>1. e = [s EXCEPT !.balance = @ + x.total, !.deposited = @ + x.total]
    BY <1>1, <1>5 DEF Executed
  <2>2. /\ e.type = s.type /\ e.milestones = s.milestones
        /\ e.balance = s.balance + x.total /\ e.deposited = s.deposited + x.total
    BY <1>2, <2>1
  <2>3. Unsettled(e) = Unsettled(s)
    <3>1. \A n \in Milestones : Settled(e, n) <=> Settled(s, n)
      BY <2>2 DEF Settled
    <3> QED  BY <3>1 DEF Unsettled
  <2>4. PICK b \in Nat, d \in Nat : b = s.balance + x.total /\ d = s.deposited + x.total
    BY <1>2
  <2> QED  BY <1>2, <1>3, <2>2, <2>3, <2>4
<1>6. CASE x.op \in {"approve", "evidence"} /\ e # s
  <2>1. PICK flag \in {"approved", "evidence"} : e = [s EXCEPT !.milestones[m] = @ \cup {flag}]
    BY <1>1, <1>6 DEF Executed
  <2>2. /\ e.type = s.type /\ e.balance = s.balance /\ e.deposited = s.deposited
        /\ Flagged(s, e, m, flag)
    BY <1>2, <2>1 DEF Flagged
  <2>3. Unsettled(e) = Unsettled(s)
    BY <2>1, <2>2, FlaggedUnsettled
  <2> QED  BY <1>2, <1>3, <2>2, <2>3
<1>7. ASSUME NEW flag \in {"disputed", "released", "resolved"}, NEW marked,
             marked = Mark(s, m, flag), marked.type = "multi-release"
      PROVE  /\ s.type = "multi-release"
             /\ marked.balance = s.balance /\ marked.deposited = s.deposited
             /\ Flagged(s, marked, m, flag)
             /\ \A b : /\ [marked EXCEPT !.balance = b].balance = b
                       /\ [marked EXCEPT !.balance = b].type = marked.type
                       /\ [marked EXCEPT !.balance = b].deposited = marked.deposited
                       /\ Flagged(s, [marked EXCEPT !.balance = b], m, flag)
  <2>1. CASE s.type = "single-release"
    BY <1>2, <1>7, <2>1 DEF Mark, Flagged
  <2>2. CASE s.type # "single-release"
    BY <1>2, <1>7, <2>2 DEF Mark, Flagged, EscrowTypes
  <2> QED  BY <2>1, <2>2
<1>8. ASSUME NEW flag \in {"disputed", "released", "resolved"}, NEW marked, NEW b,
             marked = Mark(s, m, flag), e = [marked EXCEPT !.balance = b]
      PROVE  marked.type = "multi-release"
  <2>1. marked.type = s.type /\ [marked EXCEPT !.balance = b].type = marked.type
    BY <1>2, <1>8 DEF Mark
  <2> QED  BY <1>8, <2>1
<1>9. CASE x.op = "dispute" /\ MayDispute(s, m)
  <2>1. PICK marked : marked = Mark(s, m, "disputed") /\ e = marked
    BY <1>1, <1>9 DEF Executed
  <2>2. /\ s.type = "multi-release"
        /\ e.balance = s.balance /\ e.deposited = s.deposited
        /\ Flagged(s, e, m, "disputed")
    BY <1>7, <2>1
  <2>3. Unsettled(e) = Unsettled(s)
    BY <2>2, FlaggedUnsettled
  <2> QED  BY <1>2, <1>3, <2>2, <2>3
<1>10. CASE x.op = "release" /\ MayRelease(s, m)
  <2>1. PICK marked, b : /\ marked = Mark(s, m, "released")
                         /\ b = IF s.type = "single-release" THEN 0
                                ELSE marked.balance - AmountOf[m]
                         /\ e = [marked EXCEPT !.balance = b]
    BY <1>1, <1>10 DEF Executed
  <2>2. marked.type = "multi-release"
    BY <1>8, <2>1
  <2>3. /\ s.type = "multi-release"
        /\ e.balance = s.balance - AmountOf[m] /\ e.deposited = s.deposited
        /\ Flagged(s, e, m, "released")
    BY <1>7, <2>1, <2>2
  <2>4. Unsettled(e) = Unsettled(s) \ {m}
    BY <2>3, FlaggedUnsettled
  <2>5. m \in Unsettled(s) /\ s.balance >= AmountOf[m]
    BY <1>2, <1>10, <2>3 DEF MayRelease, Unsettled
  <2>6. PICK left \in Nat, paid \in Nat : left = s.balance - paid /\ paid = AmountOf[m]
    BY <1>2, <2>5
  <2>7. left + paid + s.deposited = s.deposited + s.balance /\ paid <= AmountOf[m]
    BY <1>2, <2>6
  <2> QED  BY <1>2, <1>3, <2>3, <2>4, <2>5, <2>6, <2>7
<1>11. CASE x.op = "resolve" /\ MayResolve(s, x)
  <2>1. PICK marked, b : /\ marked = Mark(s, m, "resolved")
                         /\ b = marked.balance - x.total
                         /\ e = [marked EXCEPT !.balance = b]
    BY <1>1, <1>11 DEF Executed
  <2>2. marked.type = "multi-release"
    BY <1>8, <2>1
  <2>3. /\ s.type = "multi-release"
        /\ e.balance = s.balance - x.total /\ e.deposited = s.deposited
        /\ Flagged(s, e, m, "resolved")
    BY <1>7, <2>1, <2>2
  <2>4. Unsettled(e) = Unsettled(s) \ {m}
    BY <2>3, FlaggedUnsettled
  <2>5. m \in Unsettled(s) /\ s.balance >= x.total /\ x.total <= AmountOf[m]
    BY <1>1, <1>2, <1>11, <2>3 DEF MayResolve, Unsettled, Capped
  <2>6. PICK left \in Nat, paid \in Nat : left = s.balance - paid /\ paid = x.total
    BY <1>2, <2>5
  <2>7. left + paid + s.deposited = s.deposited + s.balance /\ paid <= AmountOf[m]
    BY <1>2, <2>5, <2>6
  <2> QED  BY <1>2, <1>3, <2>3, <2>4, <2>5, <2>6, <2>7
<1>12. \/ e = s
       \/ x.op \in {"fund", "approve", "evidence"}
       \/ x.op = "dispute" /\ MayDispute(s, m)
       \/ x.op = "release" /\ MayRelease(s, m)
       \/ x.op = "resolve" /\ MayResolve(s, x)
  BY <1>1 DEF Executed
<1> QED  BY <1>4, <1>5, <1>6, <1>9, <1>10, <1>11, <1>12

\* A handler goes on in c, and what it hands out, if anything, is capped.
LEMMA CapMoves ==
  ASSUME ReservedInv, GatewayInv', NEW r \in Reqs, NEW c, call' = [call EXCEPT ![r] = c],
         UNCHANGED <<escrow, raw>>, DecidedCapped(c),
         \A x \in xdrs' : x \in xdrs \/ (x.op = "resolve" => x.prepared \/ Capped(x))
  PROVE  ReservedInv'
<1>1. \A s \in Reqs : call'[s] = IF s = r THEN c ELSE call[s]
  BY DEF ReservedInv, GatewayInv
<1>2. \A s \in Reqs : DecidedCapped(call'[s])
  BY <1>1 DEF ReservedInv
<1>3. \A x \in xdrs' : x.op = "resolve" => x.prepared \/ Capped(x)
  BY DEF ReservedInv
<1>4. ("resolve" \in raw \/ Reserved(escrow))'
  BY DEF ReservedInv, Reserved, Unsettled, Settled
<1> QED  BY <1>2, <1>3, <1>4 DEF ReservedInv, DecidedCapped, Capped

\* A handler that decides nothing about a resolution, and hands nothing out.
LEMMA CapStays ==
  ASSUME ReservedInv, GatewayInv', NEW r \in Reqs, NEW c, call' = [call EXCEPT ![r] = c],
         UNCHANGED <<escrow, xdrs, raw>>, c.pc # "check_recipients",
         c.pc = "relay" => c.op # "resolve"
  PROVE  ReservedInv'
  BY CapMoves DEF DecidedCapped

LEMMA ReadEscrowCaps ==
  ASSUME ReservedInv, GatewayInv', NEW r \in Reqs, readEscrow(r)
  PROVE  ReservedInv'
<1>1. CASE Done(r)
  <2>1. Idle.pc = "idle" /\ call' = [call EXCEPT ![r] = Idle] /\ UNCHANGED <<escrow, xdrs, raw>>
    BY <1>1 DEF readEscrow, Done, Await, gatewayVars, Idle
  <2> QED  BY <2>1, CapStays
<1>2. CASE ~Done(r)
  <2>0. PICK known \in BOOLEAN :
          Await(r, [pc |-> "check_recipients", milestone |-> call[r].milestone,
                    recipients |-> call[r].recipients, read |-> escrow, known |-> known,
                    total |-> resolutionTotal(escrow, call[r].milestone)])
    BY <1>2 DEF readEscrow
  <2>1. PICK m, total :
          /\ m = call[r].milestone
          /\ total = resolutionTotal(escrow, m)
          /\ Await(r, [pc |-> "check_recipients", milestone |-> m,
                       recipients |-> call[r].recipients, read |-> escrow, known |-> known,
                       total |-> total])
    BY <2>0
  <2>2. PICK c : c = [pc |-> "check_recipients", milestone |-> m,
                      recipients |-> call[r].recipients, read |-> escrow, known |-> known,
                      total |-> total]
    OBVIOUS
  <2>3. m \in Milestones /\ AmountOf[m] \in Nat /\ escrow.balance \in Nat
    BY <2>1, GatewayAssumption
       DEF ReservedInv, GatewayInv, EscrowSound, readEscrow, At, GatewaySound
  <2>4. escrow.type = "multi-release" => total <= AmountOf[m]
    BY <2>1, <2>3 DEF resolutionTotal
  <2>5. DecidedCapped(c)
    <3>1. c.total = total /\ c.milestone = m
      BY <2>2
    <3> QED  BY <2>4, <3>1 DEF DecidedCapped, Capped
  <2>6. call' = [call EXCEPT ![r] = c] /\ UNCHANGED <<escrow, xdrs, raw>>
    BY <2>1, <2>2 DEF readEscrow, Await, gatewayVars
  <2> QED  BY <2>5, <2>6, CapMoves
<1> QED  BY <1>1, <1>2

LEMMA RecipientsCap ==
  ASSUME ReservedInv, GatewayInv', NEW r \in Reqs, assertRecipientsCanReceive(r)
  PROVE  ReservedInv'
<1>1. PICK d : d = call[r]
  OBVIOUS
<1>2. PICK c : /\ c = Idle \/ c = [pc |-> "relay", op |-> "resolve", milestone |-> d.milestone,
                                   recipients |-> d.recipients, total |-> d.total,
                                   read |-> d.read, known |-> d.known]
               /\ call' = [call EXCEPT ![r] = c] /\ UNCHANGED <<escrow, xdrs, raw>>
  BY <1>1 DEF assertRecipientsCanReceive, Done, Await, gatewayVars
<1>3. Capped(d)
  BY <1>1 DEF assertRecipientsCanReceive, At, ReservedInv, DecidedCapped
<1>4. CASE c = Idle
  <2>1. c.pc = "idle"
    BY <1>4 DEF Idle
  <2> QED  BY <1>2, <2>1, CapStays
<1>5. CASE c # Idle
  <2>1. c.total = d.total /\ c.milestone = d.milestone
    BY <1>2, <1>5
  <2>2. DecidedCapped(c)
    BY <1>3, <2>1 DEF DecidedCapped, Capped
  <2> QED  BY <1>2, <2>2, CapMoves
<1> QED  BY <1>4, <1>5

\* The steps that hand a transaction out.
LEMMA AnswerCaps ==
  ASSUME ReservedInv, GatewayInv', NEW r \in Reqs, RelayAnswers(r)
  PROVE  ReservedInv'
<1>1. PICK d, x : d = call[r] /\ x = XdrOf(d)
  OBVIOUS
<1>2. x.op = d.op /\ x.total = d.total /\ x.milestone = d.milestone
  BY <1>1 DEF XdrOf
<1>3. x.op = "resolve" => Capped(x)
  BY <1>1, <1>2 DEF RelayAnswers, At, ReservedInv, DecidedCapped, Capped
<1>4. xdrs' = xdrs \cup {x} /\ call' = [call EXCEPT ![r] = Idle] /\ UNCHANGED <<escrow, raw>>
  BY <1>1 DEF RelayAnswers, Done, Await
<1>5. DecidedCapped(Idle)
  BY DEF DecidedCapped, Idle
<1> QED  BY <1>3, <1>4, <1>5, CapMoves

LEMMA PrepareCaps ==
  ASSUME ReservedInv, GatewayInv', NEW r \in Reqs, PrepareAnswers(r)
  PROVE  ReservedInv'
<1>1. XdrOf(call[r]).prepared
  BY DEF PrepareAnswers, At, XdrOf
<1>2. /\ xdrs' \subseteq xdrs \cup {XdrOf(call[r])} /\ call' = [call EXCEPT ![r] = Idle]
      /\ UNCHANGED <<escrow, raw>>
  BY DEF PrepareAnswers, Done, Await
<1>3. DecidedCapped(Idle)
  BY DEF DecidedCapped, Idle
<1> QED  BY <1>1, <1>2, <1>3, CapMoves

\* A transaction is signed: the caps of the others do not depend on it.
LEMMA SendReserves ==
  ASSUME ReservedInv, GatewayInv', NEW x \in xdrs, sendTransaction(x)
  PROVE  ReservedInv'
<1>1. PICK e : e = Executed(escrow, x)
  OBVIOUS
<1>2. /\ escrow' = e /\ xdrs' \subseteq xdrs /\ UNCHANGED call
      /\ raw \subseteq raw' /\ (x.prepared => x.op \in raw')
  BY <1>1 DEF sendTransaction, callVars
<1>3. "resolve" \notin raw' => Reserved(e)
  <2>1. Bounded(x) /\ EscrowSound(escrow)
    BY DEF ReservedInv, GatewayInv, XdrSound, Guarded
  <2>2. "resolve" \notin raw' => Reserved(escrow) /\ (x.op = "resolve" => Capped(x))
    BY <1>2 DEF ReservedInv
  <2> QED  BY <1>1, <2>1, <2>2, ExecutedReserved
<1>4. ("resolve" \in raw \/ Reserved(escrow))'
  BY <1>2, <1>3 DEF Reserved, Unsettled, Settled
<1>5. e.type = escrow.type
  <2>1. PICK s, m : s = escrow /\ m = x.milestone
    OBVIOUS
  <2>2. s \in [type : EscrowTypes, balance : Nat, deposited : Nat, flags : SUBSET MilestoneFlags,
               milestones : [Milestones -> SUBSET MilestoneFlags]]
    BY <2>1 DEF ReservedInv, GatewayInv, EscrowSound
  <2>3. \A flag : Mark(s, m, flag) \in {[s EXCEPT !.flags = @ \cup {flag}],
                                         [s EXCEPT !.milestones[m] = @ \cup {flag}]}
    BY DEF Mark
  <2>4. \A flag : /\ Mark(s, m, flag).type = s.type
                  /\ \A b : [Mark(s, m, flag) EXCEPT !.balance = b].type = s.type
    BY <2>2, <2>3
  <2>5. e = s \/ e.type = s.type
    <3>1. CASE x.op \in {"create", "fund", "approve", "evidence"}
      <4>1. e \in {s, [s EXCEPT !.balance = @ + x.total, !.deposited = @ + x.total],
                   [s EXCEPT !.milestones[m] = @ \cup {"approved"}],
                   [s EXCEPT !.milestones[m] = @ \cup {"evidence"}]}
        BY <1>1, <2>1, <3>1 DEF Executed
      <4> QED  BY <2>2, <4>1
    <3>2. CASE x.op = "dispute" /\ MayDispute(s, m)
      BY <1>1, <2>1, <2>4, <3>2 DEF Executed
    <3>3. CASE x.op = "release" /\ MayRelease(s, m)
      <4>1. PICK b : e = [Mark(s, m, "released") EXCEPT !.balance = b]
        BY <1>1, <2>1, <3>3 DEF Executed
      <4> QED  BY <2>4, <4>1
    <3>4. CASE x.op = "resolve" /\ MayResolve(s, x)
      <4>1. PICK b : e = [Mark(s, m, "resolved") EXCEPT !.balance = b]
        BY <1>1, <2>1, <3>4 DEF Executed
      <4> QED  BY <2>4, <4>1
    <3>5. \/ e = s
          \/ x.op \in {"create", "fund", "approve", "evidence"}
          \/ x.op = "dispute" /\ MayDispute(s, m)
          \/ x.op = "release" /\ MayRelease(s, m)
          \/ x.op = "resolve" /\ MayResolve(s, x)
      BY <1>1, <2>1 DEF Executed
    <3> QED  BY <3>1, <3>2, <3>3, <3>4, <3>5
  <2> QED  BY <2>1, <2>5
<1>6. \A y : Capped(y)' <=> Capped(y)
  BY <1>2, <1>5 DEF Capped
<1>7. /\ \A y \in xdrs' : y.op = "resolve" => y.prepared \/ Capped(y)
      /\ \A r \in Reqs : DecidedCapped(call'[r])
  BY <1>2 DEF ReservedInv
<1>8. /\ \A y \in xdrs' : y.op = "resolve" => y.prepared \/ Capped(y)'
      /\ \A r \in Reqs : DecidedCapped(call[r])'
  BY <1>2, <1>5, <1>7 DEF Capped, DecidedCapped
<1> QED  BY <1>4, <1>8 DEF ReservedInv

LEMMA ReservedInvNext == ReservedInv /\ [GatewayNext]_<<gatewayVars, callVars>> => ReservedInv'
<1> SUFFICES ASSUME ReservedInv, [GatewayNext]_<<gatewayVars, callVars>> PROVE ReservedInv'
  OBVIOUS
<1>0. GatewayInv'
  BY GatewayInvNext DEF ReservedInv
<1>1. ASSUME UNCHANGED <<escrow, xdrs, raw, call>> PROVE ReservedInv'
  BY <1>0, <1>1 DEF ReservedInv, Reserved, Unsettled, Settled, DecidedCapped, Capped
<1>2. CASE UNCHANGED <<gatewayVars, callVars>>
  BY <1>1, <1>2 DEF gatewayVars, callVars
<1>3. ASSUME NEW r \in Reqs, NEW m \in Milestones,
             \/ \E op \in Ops : WriteRequest(r, op, m)
             \/ changeMilestoneStatus(r, m)
             \/ \E type \in EscrowTypes, recipients \in SUBSET Parties :
                  resolveDispute(r, type, m, recipients)
             \/ \E op \in Ops, total \in 0..Price, recipients \in SUBSET Parties :
                  prepare(r, op, m, total, recipients)
      PROVE  ReservedInv'
  <2>1. PICK c : /\ Begin(r, c) /\ c.pc # "check_recipients" /\ (c.pc = "relay" => c.op # "resolve")
                 /\ UNCHANGED <<escrow, xdrs, raw>>
    BY <1>3 DEF WriteRequest, changeMilestoneStatus, resolveDispute, prepare, gatewayVars
  <2> QED  BY <1>0, <2>1, CapStays DEF Begin
<1>4. ASSUME NEW r \in Reqs, assertEscrowFunded(r) PROVE ReservedInv'
  <2>1. PICK c : /\ Await(r, c) /\ c.pc # "check_recipients" /\ (c.pc = "relay" => c.op # "resolve")
                 /\ UNCHANGED <<escrow, xdrs, raw>>
    BY <1>4 DEF assertEscrowFunded, Done, Idle, gatewayVars
  <2> QED  BY <1>0, <2>1, CapStays DEF Await
<1>5. ASSUME NEW r \in Reqs, RelayRefuses(r) \/ RelayFails(r) \/ EnqueueWrite(r)
      PROVE  ReservedInv'
  <2>1. PICK c : /\ c = Idle \/ c = [pc |-> "enqueue", key |-> KeyOf(call[r])]
                 /\ call' = [call EXCEPT ![r] = c] /\ UNCHANGED <<escrow, xdrs, raw>>
    BY <1>5 DEF RelayRefuses, RelayFails, EnqueueWrite, Done, Await, gatewayVars
  <2>2. c.pc # "check_recipients" /\ c.pc # "relay"
    BY <2>1 DEF Idle
  <2> QED  BY <1>0, <2>1, <2>2, CapStays
<1>6. ASSUME NEW key \in Keys, ReplayStarts(key) \/ ReplayAnswered(key) \/ ReplayThrows(key)
      PROVE  ReservedInv'
  BY <1>1, <1>6 DEF ReplayStarts, ReplayAnswered, ReplayThrows, callVars
<1> QED
  BY <1>0, <1>2, <1>3, <1>4, <1>5, <1>6, ReadEscrowCaps, RecipientsCap, AnswerCaps, PrepareCaps,
     SendReserves
  DEF GatewayNext

LEMMA ReservedInvInit == CallsInit /\ GatewayInit => ReservedInv
<1> SUFFICES ASSUME CallsInit, GatewayInit PROVE ReservedInv
  OBVIOUS
<1>1. escrow.balance = 0 /\ escrow.deposited = 0 /\ escrow.milestones = [m \in Milestones |-> {}]
  BY DEF GatewayInit
<1>2. Unsettled(escrow) = Milestones
  BY <1>1 DEF Unsettled, Settled
<1>3. Reserved(escrow)
  BY <1>1, <1>2, PriceIsPositive DEF Reserved, Price
<1>4. DecidedCapped(Idle)
  BY DEF DecidedCapped, Idle
<1> QED  BY <1>3, <1>4, GatewayInvInit DEF CallsInit, GatewayInit, ReservedInv

LEMMA ReservedKeeps ==
  ASSUME EscrowSound(escrow), "resolve" \in raw \/ Reserved(escrow) PROVE OthersKeepTheirFunds
<1> SUFFICES ASSUME escrow.type = "multi-release", escrow.deposited >= Price,
                    "resolve" \notin raw
             PROVE  escrow.balance >= SumFunctionOnSet(AmountOf, Unsettled(escrow))
  BY DEF OthersKeepTheirFunds, Unsettled
<1>1. escrow.balance + Price >= escrow.deposited + SumFunctionOnSet(AmountOf, Unsettled(escrow))
  BY DEF Reserved
<1>2. escrow.balance \in Nat /\ escrow.deposited \in Nat /\ Price \in Nat
  BY PriceIsPositive DEF EscrowSound
<1>3. SumFunctionOnSet(AmountOf, Unsettled(escrow)) \in Nat
  BY AmountsAddUp DEF Unsettled
<1> QED  BY <1>1, <1>2, <1>3

\* Once the price has been deposited, the contract always holds the amounts of
\* the milestones that are not settled, however many resolutions are built on
\* balances long gone and signed in any order: resolutionTotal never asks for
\* more than the milestone's own amount, and the contract settles a milestone
\* once.  A client who has prepare build a resolution names any total.
THEOREM OthersFundsAreKept == GatewaySpec => []OthersKeepTheirFunds
<1>1. ReservedInv => OthersKeepTheirFunds
  BY ReservedKeeps DEF ReservedInv, GatewayInv
<1> QED  BY <1>1, ReservedInvInit, ReservedInvNext, PTL DEF GatewaySpec
====
