---- MODULE ServicesProofs ----
(***************************************************************************)
(* Proofs about the services that keep tables of their own, for any users, *)
(* rows, loads, overlapping requests and faults.                           *)
(***************************************************************************)
EXTENDS Services, WalletsProofs, EscrowGatewayProofs, DisputeDistributionsProofs

\* The parts of every invariant about the requests in flight.
CallsShape ==
    /\ load \in Loads
    /\ served \in Nat
    /\ faults \in Nat
    /\ call = [r \in Reqs |-> call[r]]
    /\ \A r \in Reqs : call[r] # Idle => r \in load.slots

\* The handler of r goes on, or a request begins or ends in r.
Moves(r, c) ==
    /\ call' = [call EXCEPT ![r] = c]
    /\ load' = load
    /\ faults' \in Nat /\ faults' >= faults
    /\ served' \in Nat /\ served' >= served

LEMMA CallsShapeInit == CallsInit => CallsShape
  BY DEF CallsInit, CallsShape

LEMMA CallsShapeMoves ==
  ASSUME CallsShape, NEW r \in Reqs, NEW c, Moves(r, c), r \in load.slots
  PROVE  /\ CallsShape'
         /\ call'[r] = c
         /\ \A s \in Reqs \ {r} : call'[s] = call[s]
  BY DEF CallsShape, Moves

LEMMA BeginMoves ==
  ASSUME CallsShape, NEW r \in Reqs, NEW c, Begin(r, c)
  PROVE  Moves(r, c) /\ r \in load.slots /\ call[r] = Idle /\ UNCHANGED faults
  BY DEF CallsShape, Begin, Moves

LEMMA AwaitMoves ==
  ASSUME CallsShape, NEW r \in Reqs, NEW c, Await(r, c)
  PROVE  Moves(r, c) /\ UNCHANGED <<faults, served>>
  BY DEF CallsShape, Await, Moves

LEMMA DiesMoves ==
  ASSUME CallsShape, NEW r \in Reqs, Dies(r)
  PROVE  Moves(r, Idle) /\ r \in load.slots /\ faults' = faults + 1 /\ UNCHANGED served
  BY DEF CallsShape, Dies, Moves

\* A handler that waits somewhere has a slot.
LEMMA BusyHasSlot ==
  ASSUME CallsShape, NEW r \in Reqs, call[r].pc # "idle" PROVE r \in load.slots
  BY DEF CallsShape, Idle

\* With one slot there is one handler.
LEMMA SerialIsAlone ==
  ASSUME CallsShape, Serial, NEW r \in load.slots, NEW s \in load.slots PROVE r = s
<1>1. IsFiniteSet(load.slots)
  BY CallsAssumption, FS_Subset DEF CallsShape
<1>2. SUFFICES ASSUME r # s PROVE FALSE
  OBVIOUS
<1>3. {r, s} \subseteq load.slots /\ IsFiniteSet({r, s})
  BY <1>1, FS_Subset
<1>4. Cardinality({r, s}) = 2
  <2>1. IsFiniteSet({r}) /\ Cardinality({r}) = 1
    BY FS_Singleton
  <2>2. {r} \cup {s} = {r, s} /\ s \notin {r}
    BY <1>2
  <2>3. Cardinality({r} \cup {s}) = Cardinality({r}) + 1
    BY ZenonT(60), <2>1, <2>2, FS_AddElement
  <2> QED  BY <2>1, <2>2, <2>3
<1>5. Cardinality({r, s}) <= Cardinality(load.slots)
  BY <1>1, <1>3, FS_Subset
<1>6. Cardinality(load.slots) \in Nat /\ Cardinality(load.slots) <= 1
  BY <1>1, FS_CardinalityType DEF Serial
<1> QED  BY <1>4, <1>5, <1>6

\* What is served does not change.
Proceeds == load' = load /\ faults' \in {faults, faults + 1}

LEMMA LoadKept == [ServicesNext]_serviceVars => Proceeds
<1> USE DEF Begin, Await, Done, Dies, Proceeds
<1>1. ProfilesNext => Proceeds
  BY DEF ProfilesNext, GetOrCreateRead, GetOrCreateInsert, UpdateProfileRead, UpdateProfileWrite
<1>2. HiringNext => Proceeds
  BY ZenonT(60), <1>1 DEF HiringNext, OpportunitiesNext, ApplicationsNext, HiringDies, OpportunityCreate,
         OpportunityInsert, OpportunityUpdateRead, OpportunityUpdateWrite, OpportunityRemoveRead,
         OpportunityDelete, ApplyRead, ApplyInsert, DecideRead, DecideWrite, AcceptFill,
         AcceptRejectOthers
<1>3. KycNext => Proceeds
  BY DEF KycNext, OpenDirectly, Says, Redeploy, KycCreateRead, KycOpen, KycWrite, Webhook,
         KycDies, callVars
<1>4. KybNext => Proceeds
  BY DEF KybNext, KybCreateRead, KybOpen, KybWrite, KybReviewRead, KybReviewWrite, KybDies,
         SetUserRoleRead, SetUserRoleWrite
<1>5. RoomNext => Proceeds
  BY ZenonT(60) DEF RoomNext, Upload, StoreObject, InsertFile, InsertFileRefused,
         InsertFileAnswerLost, RemoveObject, SendMessage, InsertMessage, AttachFiles, RoomDies,
         Login, callVars
<1>6. NotificationsNext => Proceeds
  BY DEF NotificationsNext, MemberJoins, EmailChanges, OnEvent, OnRequest, sendCustomNotification,
         FindAgreement, getParticipantEmails, ReadParticipantsFails, getEmailForWallet,
         SendAccepted, SendRefused, SendAnswerLost, recordNotification, NoticeDies, callVars
<1>7. WalletsNext => Proceeds
  <2>1. ASSUME NEW u \in load.users, NEW a \in ActiveAddresses,
               \/ generateVerificationChallenge(u, a)
               \/ \E p \in PollarIds \cup {Nothing} : Login(u, a, p) /\ UNCHANGED walletVars
               \/ \E r \in Reqs : LinkRead(r, u, a)
               \/ \E r \in Reqs, i \in Ids : VerifyRead(r, u, i, a)
        PROVE  Proceeds
    BY <2>1 DEF generateVerificationChallenge, Login, LinkRead, VerifyRead, callVars
  <2>2. ChallengeExpires => Proceeds
    BY DEF ChallengeExpires, callVars
  <2>3. ASSUME NEW r \in Reqs, NEW u \in load.users, NEW i \in Ids,
               \/ \E primary \in BOOLEAN : UpdateWalletRead(r, u, i, primary)
               \/ UnlinkRead(r, u, i)
        PROVE  Proceeds
    BY <2>3 DEF UpdateWalletRead, UnlinkRead
  <2>4. ASSUME NEW r \in Reqs,
               \/ LinkCount(r) \/ LinkCountFails(r) \/ LinkProve(r) \/ LinkRefused(r)
               \/ LinkInsert(r) \/ LinkProvider(r)
        PROVE  Proceeds
    BY <2>4 DEF LinkCount, LinkCountFails, LinkProve, LinkRefused, LinkInsert, LinkProvider
  <2>5. ASSUME NEW r \in Reqs,
               \/ UpdateWalletUnset(r) \/ UpdateWalletUnsetFails(r) \/ UpdateWalletWrite(r)
               \/ UnlinkDelete(r) \/ UnlinkPick(r) \/ UnlinkPromote(r)
               \/ VerifyWrite(r) \/ WalletDies(r)
        PROVE  Proceeds
    BY <2>5 DEF UpdateWalletUnset, UpdateWalletUnsetFails, UpdateWalletWrite, UnlinkDelete,
         UnlinkPick, UnlinkPromote, VerifyWrite, WalletDies
  <2> QED  BY <2>1, <2>2, <2>3, <2>4, <2>5 DEF WalletsNext
<1>8. GatewayNext => Proceeds
  BY DEF GatewayNext, WriteRequest, changeMilestoneStatus, resolveDispute, prepare, PrepareAnswers,
         assertEscrowFunded, readEscrow, assertRecipientsCanReceive, RelayAnswers, RelayRefuses, RelayFails,
         EnqueueWrite, ReplayStarts, ReplayAnswered, ReplayThrows, sendTransaction, callVars
<1>9. MemoryNext => Proceeds
  BY DEF MemoryNext, registerHandler, MemoryEnqueue, processDueJobs, RunJob, PollEnds,
         HandlerReturns, MemoryBackoffElapses, retryJob, clearCompleted, MemoryRestart, callVars
<1> QED  BY <1>2, <1>3, <1>4, <1>5, <1>6, <1>7, <1>8, <1>9
  DEF ServicesNext, serviceVars, callVars

(***************************************************************************)
(* Hiring                                                                  *)
(***************************************************************************)

HiringSound(c) ==
    /\ c.pc \in {"opportunity_write", "opportunity_delete", "application_insert",
                 "application_write", "accept_fill", "accept_reject"}
       => c.id \in Opportunities
    /\ c.pc \in {"application_insert", "application_write", "accept_fill", "accept_reject"}
       => c.builder \in Users
    /\ c.pc = "opportunity_insert" => c.project \in Addresses
    /\ c.pc = "opportunity_write" => c.status \in {"closed", "filled"}
    /\ c.pc = "application_write" => c.status \in {"accepted", "rejected"}
    /\ c.pc = "accept_fill" => c = [pc |-> "accept_fill", id |-> c.id, builder |-> c.builder]

TablesShape ==
    /\ \A u \in Users : walletForUserId(u) \in Addresses
    /\ opportunities \in [Opportunities -> Opportunity \cup {Nothing, Removed}]
    /\ applications \in [Opportunities -> [Users -> ApplicationStatuses \cup {Nothing}]]
    /\ \A o \in Opportunities : \A b \in Users : applications[o][b] # Nothing => Listed(o)

\* An opportunity that has hired and is still offered is about to be filled.
OffersClose ==
    faults = 0 => \A o \in discover :
        \/ Hired(o) = {}
        \/ \E r \in Reqs : call[r].pc = "accept_fill" /\ call[r].id = o

\* The handler that accepted will turn the others down.
Accepting(o) ==
    \E r \in Reqs :
        /\ call[r].pc \in {"accept_fill", "accept_reject"}
        /\ call[r].id = o
        /\ applications[o][call[r].builder] = "accepted"
        /\ call[r].pc = "accept_reject" => o \notin discover

\* Nobody is left to be hired, and nobody can apply.
NobodyLeft(o) ==
    /\ o \notin discover
    /\ \A b \in Users : applications[o][b] # "pending"
    /\ \A r \in Reqs :
         call[r].pc \in {"application_insert", "application_write"} => call[r].id # o

HireBudget(o) ==
    /\ IsFiniteSet(Hired(o))
    /\ Cardinality(Hired(o)) <= 1 + faults
    /\ Cardinality(Hired(o)) <= faults \/ Accepting(o) \/ NobodyLeft(o)

HiringInv ==
    /\ CallsShape
    /\ \A r \in Reqs : HiringSound(call[r])
    /\ TablesShape
    /\ OffersClose
    /\ Serial => \A o \in Opportunities : HireBudget(o)

LEMMA GrownByOne ==
  ASSUME NEW S, NEW x, NEW T, IsFiniteSet(S), T \subseteq S \cup {x}
  PROVE  IsFiniteSet(T) /\ Cardinality(T) <= 1 + Cardinality(S)
<1>1. IsFiniteSet(S \cup {x}) /\ Cardinality(S) \in Nat
      /\ Cardinality(S \cup {x}) <= 1 + Cardinality(S)
  BY FS_AddElement, FS_CardinalityType
<1>2. IsFiniteSet(T) /\ Cardinality(T) <= Cardinality(S \cup {x})
  BY <1>1, FS_Subset
<1> QED  BY <1>1, <1>2, FS_CardinalityType

\* Nobody is hired for an opportunity without applications.
LEMMA NobodyHired ==
  ASSUME NEW o \in Opportunities, faults \in Nat, Hired(o) = {} PROVE HireBudget(o)
  BY FS_EmptySet DEF HireBudget

LEMMA HiringInitInv ==
  ASSUME CallsInit, AccountsInit(Enterprises, Admins), HiringInit PROVE HiringInv
<1>1. CallsShape /\ faults \in Nat
  BY CallsShapeInit DEF CallsShape
<1>2. \A r \in Reqs : HiringSound(call[r])
  BY DEF CallsInit, HiringSound, Idle
<1>3. \A o \in Opportunities : ~Listed(o) /\ \A b \in Users : applications[o][b] = Nothing
  BY DEF HiringInit, Listed
<1>4. TablesShape
  <2>1. ASSUME NEW u \in Users PROVE walletForUserId(u) \in Addresses
    <3>1. auth[u].key = CHOOSE a \in Addresses : KeyHolder[a] = u
      BY DEF AccountsInit
    <3>2. \E a \in Addresses : KeyHolder[a] = u
      BY AccountsAssumption
    <3> QED  BY <3>1, <3>2 DEF walletForUserId
  <2> QED  BY <1>3, <2>1 DEF TablesShape, HiringInit
<1>5. \A o \in Opportunities : Hired(o) = {}
  BY <1>3, HiringAssumption DEF Hired, ApplicationStatuses
<1>6. OffersClose
  BY <1>3 DEF OffersClose, discover
<1> QED  BY <1>1, <1>2, <1>4, <1>5, <1>6, NobodyHired DEF HiringInv

\* A handler that leaves both tables alone.
LEMMA HiringReads ==
  ASSUME HiringInv, NEW r \in Reqs, NEW c, Moves(r, c), r \in load.slots,
         UNCHANGED <<auth, hiringVars>>,
         HiringSound(c),
         call[r].pc \in {"accept_fill", "accept_reject"} => faults' > faults,
         c.pc \in {"application_insert", "application_write"} => ~NobodyLeft(c.id)
  PROVE  HiringInv'
<1>1. CallsShape' /\ call'[r] = c /\ \A s \in Reqs \ {r} : call'[s] = call[s]
  BY CallsShapeMoves DEF HiringInv
<1>2. \A s \in Reqs : HiringSound(call[s])'
  BY <1>1 DEF HiringInv, HiringSound
<1>3. TablesShape'
  BY DEF HiringInv, TablesShape, hiringVars, Listed, walletForUserId
<1>4. discover' = discover /\ \A o \in Opportunities : Hired(o)' = Hired(o)
  BY DEF hiringVars, discover, Listed, Hired
<1>5. OffersClose'
  <2> SUFFICES ASSUME faults' = 0, NEW o \in discover, Hired(o) # {}
               PROVE  \E s \in Reqs : call'[s].pc = "accept_fill" /\ call'[s].id = o
    BY <1>4 DEF OffersClose, discover
  <2>1. faults = 0 /\ call[r].pc # "accept_fill"
    BY DEF Moves, HiringInv, CallsShape
  <2>2. PICK s \in Reqs : call[s].pc = "accept_fill" /\ call[s].id = o
    BY <2>1 DEF HiringInv, OffersClose
  <2> QED  BY <1>1, <2>1, <2>2
<1>6. ASSUME Serial', NEW o \in Opportunities PROVE HireBudget(o)'
  <2>1. HireBudget(o) /\ faults \in Nat /\ faults' \in Nat /\ faults <= faults'
    BY <1>6 DEF HiringInv, Serial, Moves, CallsShape
  <2>2. IsFiniteSet(Hired(o)') /\ Cardinality(Hired(o)') = Cardinality(Hired(o))
        /\ Cardinality(Hired(o)) \in Nat
    BY <1>4, <2>1, FS_CardinalityType DEF HireBudget
  <2>3. CASE faults' > faults
    BY <2>1, <2>2, <2>3 DEF HireBudget
  <2>4. CASE call[r].pc \notin {"accept_fill", "accept_reject"}
    <3>1. Accepting(o) => Accepting(o)'
      BY <1>1, <1>4, <2>4 DEF Accepting, hiringVars
    <3>2. NobodyLeft(o) => NobodyLeft(o)'
      BY <1>1, <1>4 DEF NobodyLeft, hiringVars
    <3> QED  BY <2>1, <2>2, <3>1, <3>2 DEF HireBudget
  <2> QED  BY <2>3, <2>4
<1> QED  BY <1>1, <1>2, <1>3, <1>5, <1>6 DEF HiringInv

\* A handler that waited writes and goes on.
LEMMA HiringMoves ==
  ASSUME HiringInv, NEW r \in Reqs, NEW c, Await(r, c), call[r].pc # "idle"
  PROVE  /\ CallsShape' /\ r \in load.slots
         /\ call'[r] = c /\ \A s \in Reqs \ {r} : call'[s] = call[s]
         /\ faults' = faults /\ faults \in Nat
         /\ Serial' => Serial /\ \A s \in Reqs \ {r} : call[s] = Idle
<1>1. r \in load.slots /\ Moves(r, c) /\ faults' = faults
  BY BusyHasSlot, AwaitMoves DEF HiringInv
<1>2. ASSUME Serial', NEW s \in Reqs \ {r} PROVE call[s] = Idle
  <2>1. Serial
    BY <1>1, <1>2 DEF Moves, Serial
  <2>2. SUFFICES ASSUME s \in load.slots PROVE FALSE
    BY DEF HiringInv, CallsShape
  <2> QED  BY <1>1, <2>1, <2>2, SerialIsAlone DEF HiringInv
<1> QED  BY <1>1, <1>2, CallsShapeMoves DEF HiringInv, CallsShape, Moves, Serial

\* A handler that changes opportunities only.
LEMMA OpportunitiesChange ==
  ASSUME HiringInv, NEW r \in Reqs, Await(r, Idle), call[r].pc \notin {"idle", "accept_fill",
           "accept_reject"}, UNCHANGED applications, TablesShape',
         NEW offered, offered \subseteq {o \in Opportunities : Hired(o) = {}},
         discover' \subseteq discover \cup offered
  PROVE  HiringInv'
<1>1. /\ CallsShape' /\ call'[r] = Idle /\ \A s \in Reqs \ {r} : call'[s] = call[s]
      /\ faults' = faults /\ faults \in Nat /\ (Serial' => Serial)
  BY HiringMoves
<1>2. \A s \in Reqs : HiringSound(call[s])'
  BY <1>1 DEF HiringInv, HiringSound, Idle
<1>3. \A o \in Opportunities : Hired(o)' = Hired(o)
  BY DEF Hired
<1>4. OffersClose'
  <2> SUFFICES ASSUME faults = 0, NEW o \in discover', Hired(o) # {}
               PROVE  \E s \in Reqs : call'[s].pc = "accept_fill" /\ call'[s].id = o
    BY <1>1, <1>3 DEF OffersClose, discover
  <2>1. PICK s \in Reqs : call[s].pc = "accept_fill" /\ call[s].id = o
    BY DEF HiringInv, OffersClose
  <2> QED  BY <1>1, <2>1
<1>5. ASSUME Serial', NEW o \in Opportunities PROVE HireBudget(o)'
  <2>1. HireBudget(o)
    BY <1>1, <1>5 DEF HiringInv
  <2>2. CASE Hired(o) = {}
    BY <1>1, <1>3, <2>2, FS_EmptySet DEF HireBudget
  <2>3. CASE Hired(o) # {}
    <3>1. o \in discover' => o \in discover
      BY <2>3
    <3>2. Accepting(o) => Accepting(o)'
      BY <1>1, <3>1 DEF Accepting
    <3>3. NobodyLeft(o) => NobodyLeft(o)'
      BY <1>1, <3>1 DEF NobodyLeft, Idle
    <3> QED  BY <1>1, <1>3, <2>1, <3>2, <3>3 DEF HireBudget
  <2> QED  BY <2>2, <2>3
<1> QED  BY <1>1, <1>2, <1>4, <1>5 DEF HiringInv

LEMMA OpportunityInsertKeeps ==
  ASSUME HiringInv, NEW r \in Reqs, OpportunityInsert(r) PROVE HiringInv'
<1>1. PICK o \in Opportunities :
        /\ opportunities[o] = Nothing
        /\ opportunities' = [opportunities EXCEPT ![o] =
                               [status |-> "open", project |-> call[r].project]]
  BY DEF OpportunityInsert
<1>2. Hired(o) = {}
  BY <1>1, HiringAssumption DEF HiringInv, TablesShape, Listed, Hired, ApplicationStatuses
<1>3. TablesShape'
  <2>1. call[r].project \in Addresses
    BY DEF HiringInv, HiringSound, OpportunityInsert, At
  <2>2. PICK row \in Opportunity : opportunities' = [opportunities EXCEPT ![o] = row]
    BY <1>1, <2>1 DEF Opportunity, OpportunityStatuses
  <2>3. row # Nothing /\ row # Removed
    BY HiringAssumption DEF Opportunity, OpportunityStatuses, Removed
  <2> QED  BY <2>2, <2>3
       DEF HiringInv, TablesShape, Listed, walletForUserId, OpportunityInsert, accountVars
<1>4. discover' \subseteq discover \cup {o}
  BY <1>1 DEF HiringInv, TablesShape, discover, Listed
<1>5. {o} \subseteq {x \in Opportunities : Hired(x) = {}}
  BY <1>2
<1> QED  BY <1>3, <1>4, <1>5, OpportunitiesChange DEF OpportunityInsert, At, Done

\* A status is written in a row that is there.
LEMMA StatusWritten ==
  ASSUME TablesShape, NEW o \in Opportunities, NEW status \in OpportunityStatuses,
         UNCHANGED <<auth, applications>>,
         opportunities' = IF Listed(o) THEN [opportunities EXCEPT ![o].status = status]
                          ELSE opportunities
  PROVE  TablesShape'
<1>1. CASE ~Listed(o)
  BY <1>1 DEF TablesShape, Listed, walletForUserId
<1>2. CASE Listed(o)
  <2>1. opportunities[o] \in Opportunity
    BY <1>2 DEF TablesShape, Listed
  <2>2. PICK row \in Opportunity : opportunities' = [opportunities EXCEPT ![o] = row]
    BY <1>2, <2>1 DEF TablesShape, Opportunity
  <2>3. row # Nothing /\ row # Removed
    BY HiringAssumption DEF Opportunity, OpportunityStatuses, Removed
  <2> QED  BY <1>2, <2>2, <2>3 DEF TablesShape, Listed, walletForUserId
<1> QED  BY <1>1, <1>2

LEMMA OpportunityUpdateWriteKeeps ==
  ASSUME HiringInv, NEW r \in Reqs, OpportunityUpdateWrite(r) PROVE HiringInv'
<1>1. call[r].id \in Opportunities /\ call[r].status \in {"closed", "filled"}
  BY DEF OpportunityUpdateWrite, At, HiringInv, HiringSound
<1>2. TablesShape'
  BY <1>1, StatusWritten
  DEF OpportunityUpdateWrite, HiringInv, OpportunityStatuses, accountVars
<1>3. discover' \subseteq discover \cup {}
  BY <1>1 DEF OpportunityUpdateWrite, HiringInv, TablesShape, discover, Listed
<1>4. {} \subseteq {x \in Opportunities : Hired(x) = {}}
  OBVIOUS
<1> QED  BY <1>2, <1>3, <1>4, OpportunitiesChange DEF OpportunityUpdateWrite, At, Done

LEMMA OpportunityDeleteKeeps ==
  ASSUME HiringInv, NEW r \in Reqs, OpportunityDelete(r) PROVE HiringInv'
<1>2. PICK o \in Opportunities : o = call[r].id
  BY DEF OpportunityDelete, At, HiringInv, HiringSound
<1>1. /\ CallsShape' /\ call'[r] = Idle /\ \A s \in Reqs \ {r} : call'[s] = call[s]
      /\ faults' = faults /\ faults \in Nat /\ (Serial' => Serial)
  BY HiringMoves DEF OpportunityDelete, At, Done
<1>3. /\ opportunities' = [opportunities EXCEPT ![o] = Removed]
      /\ applications' = [applications EXCEPT ![o] = [b \in Users |-> Nothing]]
      /\ auth' = auth
  BY <1>2 DEF OpportunityDelete, accountVars
<1>4. \A s \in Reqs : HiringSound(call[s])'
  BY <1>1 DEF HiringInv, HiringSound, Idle
<1>5. TablesShape'
  BY <1>2, <1>3 DEF HiringInv, TablesShape, Listed, walletForUserId
<1>6. \A x \in Opportunities \ {o} : Hired(x)' = Hired(x) /\ applications'[x] = applications[x]
  BY <1>2, <1>3 DEF HiringInv, TablesShape, Hired
<1>7. Hired(o)' = {} /\ o \notin discover'
  BY <1>2, <1>3, HiringAssumption
  DEF HiringInv, TablesShape, Hired, ApplicationStatuses, discover, Listed
<1>8. discover' = discover \ {o}
  BY <1>2, <1>3, <1>7 DEF HiringInv, TablesShape, discover, Listed
<1>9. OffersClose'
  <2> SUFFICES ASSUME faults = 0, NEW x \in discover \ {o}, Hired(x) # {}
               PROVE  \E s \in Reqs : call'[s].pc = "accept_fill" /\ call'[s].id = x
    BY <1>1, <1>6, <1>8 DEF OffersClose, discover
  <2>1. PICK s \in Reqs : call[s].pc = "accept_fill" /\ call[s].id = x
    BY DEF HiringInv, OffersClose
  <2> QED  BY <1>1, <1>2, <2>1 DEF OpportunityDelete, At
<1>10. ASSUME Serial', NEW x \in Opportunities PROVE HireBudget(x)'
  <2>1. CASE x = o
    BY <1>1, <1>7, <2>1, FS_EmptySet DEF HireBudget
  <2>2. CASE x # o
    <3>1. HireBudget(x)
      BY <1>1, <1>10 DEF HiringInv
    <3>2. Accepting(x) => Accepting(x)'
      BY <1>1, <1>6, <1>8, <2>2 DEF Accepting, OpportunityDelete, At
    <3>3. NobodyLeft(x) => NobodyLeft(x)'
      BY <1>1, <1>6, <1>8, <2>2 DEF NobodyLeft, Idle
    <3> QED  BY <1>1, <1>6, <2>2, <3>1, <3>2, <3>3 DEF HireBudget
  <2> QED  BY <2>1, <2>2
<1> QED  BY <1>1, <1>4, <1>5, <1>9, <1>10 DEF HiringInv

\* A handler that changes the applications for one opportunity only, and
\* accepts nobody unless it is going to fill that opportunity.
ChangesApplications(r, c, o, row) ==
    /\ Await(r, c)
    /\ call[r].pc \notin {"idle", "accept_fill"} /\ call[r].id = o
    /\ HiringSound(c) /\ c.pc \notin {"application_insert", "application_write"}
    /\ row \in [Users -> ApplicationStatuses \cup {Nothing}]
    /\ applications' = [applications EXCEPT ![o] = row]
    /\ UNCHANGED <<auth, opportunities>>
    /\ \A b \in Users : row[b] # Nothing => Listed(o)
    /\ \A b \in Users : row[b] = "accepted" =>
         applications[o][b] = "accepted" \/ (c.pc = "accept_fill" /\ c.id = o)

LEMMA ApplicationsChange ==
  ASSUME HiringInv, NEW r \in Reqs, NEW c, NEW o \in Opportunities, NEW row,
         ChangesApplications(r, c, o, row)
  PROVE  /\ CallsShape' /\ TablesShape' /\ OffersClose'
         /\ \A s \in Reqs : HiringSound(call[s])'
         /\ Serial' => \A x \in Opportunities \ {o} : HireBudget(x)'
<1> USE DEF ChangesApplications
<1>1. /\ CallsShape' /\ call'[r] = c /\ \A s \in Reqs \ {r} : call'[s] = call[s]
      /\ faults' = faults /\ faults \in Nat /\ (Serial' => Serial)
  BY HiringMoves
<1>2. \A s \in Reqs : HiringSound(call[s])'
  BY <1>1 DEF HiringInv, HiringSound
<1>3. \A x \in Opportunities \ {o} : applications'[x] = applications[x] /\ Hired(x)' = Hired(x)
  BY DEF HiringInv, TablesShape, Hired
<1>4. applications'[o] = row
  BY DEF HiringInv, TablesShape
<1>5. TablesShape'
  BY DEF HiringInv, TablesShape, Listed, walletForUserId
<1>6. discover' = discover
  BY DEF discover, Listed
<1>7. OffersClose'
  <2> SUFFICES ASSUME faults = 0, NEW x \in discover, Hired(x)' # {}
               PROVE  \E s \in Reqs : call'[s].pc = "accept_fill" /\ call'[s].id = x
    BY <1>1, <1>6 DEF OffersClose
  <2>1. CASE Hired(x) # {}
    <3>1. PICK s \in Reqs : call[s].pc = "accept_fill" /\ call[s].id = x
      BY <2>1 DEF HiringInv, OffersClose
    <3> QED  BY <1>1, <3>1
  <2>2. CASE Hired(x) = {}
    <3>1. x = o
      BY <1>3, <2>2 DEF discover
    <3>2. PICK b \in Users : row[b] = "accepted" /\ applications[o][b] # "accepted"
      BY <1>4, <2>2, <3>1 DEF Hired
    <3> QED  BY <1>1, <3>1, <3>2
  <2> QED  BY <2>1, <2>2
<1>8. ASSUME Serial', NEW x \in Opportunities \ {o} PROVE HireBudget(x)'
  <2>1. HireBudget(x)
    BY <1>1, <1>8 DEF HiringInv
  <2>2. Accepting(x) => Accepting(x)'
    BY <1>1, <1>3, <1>6 DEF Accepting
  <2>3. NobodyLeft(x) => NobodyLeft(x)'
    BY <1>1, <1>3, <1>6 DEF NobodyLeft
  <2> QED  BY <1>1, <1>3, <2>1, <2>2, <2>3 DEF HireBudget
<1> QED  BY <1>1, <1>2, <1>5, <1>7, <1>8

LEMMA ApplyInsertKeeps ==
  ASSUME HiringInv, NEW r \in Reqs, ApplyInsert(r) PROVE HiringInv'
<1>1. PICK o \in Opportunities, b \in Users : o = call[r].id /\ b = call[r].builder
  BY DEF ApplyInsert, At, HiringInv, HiringSound
<1>2. /\ CallsShape' /\ call'[r] = Idle /\ \A s \in Reqs \ {r} : call'[s] = call[s]
      /\ faults' = faults /\ faults \in Nat /\ (Serial' => Serial)
  BY HiringMoves DEF ApplyInsert, At, Done
<1>3. PICK row \in [Users -> ApplicationStatuses \cup {Nothing}] :
        row = IF Listed(o) /\ applications[o][b] = Nothing
              THEN [applications[o] EXCEPT ![b] = "pending"] ELSE applications[o]
  BY DEF HiringInv, TablesShape, ApplicationStatuses
<1>4. applications' = [applications EXCEPT ![o] = row]
  BY <1>1, <1>3 DEF ApplyInsert, HiringInv, TablesShape
<1>5. \A x \in Users : row[x] # Nothing => Listed(o)
  BY <1>1, <1>3 DEF HiringInv, TablesShape
<1>6. \A x \in Users : /\ (row[x] = "accepted") = (applications[o][x] = "accepted")
                       /\ row[x] = "pending" => applications[o][x] = "pending" \/ Listed(o)
  BY <1>1, <1>3, HiringAssumption DEF HiringInv, TablesShape, ApplicationStatuses
<1>7. ASSUME Serial' PROVE HireBudget(o)'
  <2>1. HireBudget(o)
    BY <1>1, <1>2, <1>7 DEF HiringInv
  <2>2. applications'[o] = row
    BY <1>1, <1>4 DEF HiringInv, TablesShape
  <2>3. Hired(o)' = Hired(o)
    BY <1>6, <2>2 DEF Hired
  <2>4. Accepting(o) => Accepting(o)'
    <3> SUFFICES ASSUME NEW s \in Reqs,
                        /\ call[s].pc \in {"accept_fill", "accept_reject"}
                        /\ call[s].id = o
                        /\ applications[o][call[s].builder] = "accepted"
                        /\ call[s].pc = "accept_reject" => o \notin discover
                 PROVE  Accepting(o)'
      BY DEF Accepting
    <3>1. call'[s] = call[s] /\ discover' = discover
      BY <1>2 DEF ApplyInsert, At, discover, Listed
    <3>2. call[s].builder \in Users
      BY DEF HiringInv, HiringSound
    <3> QED  BY <1>6, <2>2, <3>1, <3>2 DEF Accepting
  <2>5. ~NobodyLeft(o)
    BY <1>1 DEF NobodyLeft, ApplyInsert, At
  <2> QED  BY <1>2, <2>1, <2>3, <2>4, <2>5 DEF HireBudget
<1>8. HiringSound(Idle) /\ Idle.pc = "idle"
  BY DEF HiringSound, Idle
<1>9. /\ Await(r, Idle) /\ UNCHANGED <<auth, opportunities>> /\ call[r].id = o
      /\ call[r].pc \notin {"idle", "accept_fill"}
      /\ Idle.pc \notin {"application_insert", "application_write"}
  BY <1>1 DEF ApplyInsert, At, Done, accountVars, Idle
<1>10. \A x \in Users : row[x] = "accepted" =>
         applications[o][x] = "accepted" \/ (Idle.pc = "accept_fill" /\ Idle.id = o)
  BY <1>6
<1>11. /\ CallsShape' /\ TablesShape' /\ OffersClose'
       /\ \A s \in Reqs : HiringSound(call[s])'
       /\ Serial' => \A x \in Opportunities \ {o} : HireBudget(x)'
  <2>1. ChangesApplications(r, Idle, o, row)
    BY <1>4, <1>5, <1>8, <1>9, <1>10 DEF ChangesApplications
  <2> QED  BY <2>1, ApplicationsChange
<1> QED  BY <1>7, <1>11 DEF HiringInv

\* A decision: only an accept can hire, and with one handler nobody else is
\* being accepted.
LEMMA DecideWriteKeeps ==
  ASSUME HiringInv, NEW r \in Reqs, DecideWrite(r) PROVE HiringInv'
<1>1. PICK o \in Opportunities, b \in Users, status \in {"accepted", "rejected"} :
        o = call[r].id /\ b = call[r].builder /\ status = call[r].status
  BY DEF DecideWrite, At, HiringInv, HiringSound
<1>2. PICK c : c = IF applications[o][b] # Nothing /\ status = "accepted"
                   THEN [pc |-> "accept_fill", id |-> o, builder |-> b] ELSE Idle
  OBVIOUS
<1>3. Await(r, c)
  BY <1>1, <1>2 DEF DecideWrite, Done
<1>4. /\ CallsShape' /\ call'[r] = c /\ \A s \in Reqs \ {r} : call'[s] = call[s]
      /\ faults' = faults /\ faults \in Nat
      /\ Serial' => Serial /\ \A s \in Reqs \ {r} : call[s] = Idle
  BY <1>3, HiringMoves DEF DecideWrite, At
<1>5. PICK row \in [Users -> ApplicationStatuses \cup {Nothing}] :
        row = IF applications[o][b] # Nothing
              THEN [applications[o] EXCEPT ![b] = status] ELSE applications[o]
  BY DEF HiringInv, TablesShape, ApplicationStatuses
<1>6. applications' = [applications EXCEPT ![o] = row]
  BY <1>1, <1>5 DEF DecideWrite, HiringInv, TablesShape
<1>7. \A x \in Users : row[x] # Nothing => Listed(o)
  BY <1>1, <1>5 DEF HiringInv, TablesShape
<1>8. \A x \in Users : row[x] = "accepted" =>
        applications[o][x] = "accepted" \/ (x = b /\ c.pc = "accept_fill" /\ c.id = o)
  BY <1>1, <1>2, <1>5 DEF HiringInv, TablesShape
<1>9. ASSUME Serial' PROVE HireBudget(o)'
  <2>1. HireBudget(o)
    BY <1>1, <1>4, <1>9 DEF HiringInv
  <2>2. applications'[o] = row
    BY <1>1, <1>6 DEF HiringInv, TablesShape
  <2>3. ~NobodyLeft(o)
    BY <1>1 DEF NobodyLeft, DecideWrite, At
  <2>4. ~Accepting(o)
    BY <1>4, <1>9 DEF Accepting, DecideWrite, At, Idle
  <2>5. Cardinality(Hired(o)) <= faults /\ IsFiniteSet(Hired(o))
    BY <2>1, <2>3, <2>4 DEF HireBudget
  <2>6. CASE c.pc = "accept_fill"
    <3>1. Hired(o)' \subseteq Hired(o) \cup {b}
      BY <1>8, <2>2 DEF Hired
    <3>2. IsFiniteSet(Hired(o)') /\ Cardinality(Hired(o)') <= 1 + Cardinality(Hired(o))
      BY <2>5, <3>1, GrownByOne
    <3>3. IsFiniteSet(Hired(o)) /\ Cardinality(Hired(o)) \in Nat
          /\ Cardinality(Hired(o)') \in Nat
      BY <2>5, <3>2, FS_CardinalityType
    <3>4. Accepting(o)'
      BY <1>2, <1>4, <1>5, <2>2, <2>6 DEF Accepting, Idle, HiringInv, TablesShape
    <3> QED  BY <1>4, <2>5, <3>2, <3>3, <3>4 DEF HireBudget
  <2>7. CASE c.pc # "accept_fill"
    <3>1. Hired(o)' \subseteq Hired(o)
      BY <1>8, <2>2, <2>7 DEF Hired
    <3>2. IsFiniteSet(Hired(o)') /\ Cardinality(Hired(o)') <= Cardinality(Hired(o))
      BY <2>5, <3>1, FS_Subset
    <3>3. Cardinality(Hired(o)) \in Nat /\ Cardinality(Hired(o)') \in Nat
      BY <2>5, <3>2, FS_CardinalityType
    <3> QED  BY <1>4, <2>5, <3>2, <3>3 DEF HireBudget
  <2> QED  BY <2>6, <2>7
<1>10. HiringSound(c) /\ c.pc \in {"accept_fill", "idle"}
  BY <1>2 DEF HiringSound, Idle
<1>11. /\ UNCHANGED <<auth, opportunities>> /\ call[r].id = o
       /\ call[r].pc \notin {"idle", "accept_fill"}
       /\ c.pc \notin {"application_insert", "application_write"}
  BY <1>1, <1>10 DEF DecideWrite, At, accountVars
<1>12. \A x \in Users : row[x] = "accepted" =>
         applications[o][x] = "accepted" \/ (c.pc = "accept_fill" /\ c.id = o)
  BY <1>8
<1>13. /\ CallsShape' /\ TablesShape' /\ OffersClose'
       /\ \A s \in Reqs : HiringSound(call[s])'
       /\ Serial' => \A x \in Opportunities \ {o} : HireBudget(x)'
  <2>1. ChangesApplications(r, c, o, row)
    BY <1>3, <1>6, <1>7, <1>10, <1>11, <1>12 DEF ChangesApplications
  <2> QED  BY <2>1, ApplicationsChange
<1> QED  BY <1>9, <1>13 DEF HiringInv

\* Filling: what was accepted is no longer offered.
LEMMA AcceptFillKeeps ==
  ASSUME HiringInv, NEW r \in Reqs, AcceptFill(r) PROVE HiringInv'
<1>1. PICK o \in Opportunities, b \in Users : o = call[r].id /\ b = call[r].builder
  BY DEF AcceptFill, At, HiringInv, HiringSound
<1>2. PICK c : c = [pc |-> "accept_reject", id |-> o, builder |-> b]
  OBVIOUS
<1>3. Await(r, c)
  <2>1. call[r] = [pc |-> "accept_fill", id |-> o, builder |-> b]
    BY <1>1 DEF AcceptFill, At, HiringInv, HiringSound
  <2>2. [call[r] EXCEPT !.pc = "accept_reject"] = c
    BY <1>2, <2>1
  <2> QED  BY <2>2 DEF AcceptFill
<1>4. /\ CallsShape' /\ call'[r] = c /\ \A s \in Reqs \ {r} : call'[s] = call[s]
      /\ faults' = faults /\ faults \in Nat /\ (Serial' => Serial)
  BY <1>3, HiringMoves DEF AcceptFill, At
<1>5. \A s \in Reqs : HiringSound(call[s])'
  BY <1>2, <1>4 DEF HiringInv, HiringSound
<1>6. TablesShape'
  BY <1>1, StatusWritten DEF AcceptFill, HiringInv, OpportunityStatuses, accountVars
<1>7. discover' = discover \ {o}
  BY <1>1 DEF AcceptFill, HiringInv, TablesShape, discover, Listed
<1>8. \A x \in Opportunities : Hired(x)' = Hired(x)
  BY DEF AcceptFill, Hired
<1>9. OffersClose'
  <2> SUFFICES ASSUME faults = 0, NEW x \in discover \ {o}, Hired(x) # {}
               PROVE  \E s \in Reqs : call'[s].pc = "accept_fill" /\ call'[s].id = x
    BY <1>4, <1>7, <1>8 DEF OffersClose, discover
  <2>1. PICK s \in Reqs : call[s].pc = "accept_fill" /\ call[s].id = x
    BY DEF HiringInv, OffersClose
  <2> QED  BY <1>1, <1>4, <2>1
<1>10. ASSUME Serial', NEW x \in Opportunities PROVE HireBudget(x)'
  <2>1. HireBudget(x)
    BY <1>4, <1>10 DEF HiringInv
  <2>2. Accepting(x) => Accepting(x)'
    <3> SUFFICES ASSUME NEW s \in Reqs,
                        /\ call[s].pc \in {"accept_fill", "accept_reject"}
                        /\ call[s].id = x
                        /\ applications[x][call[s].builder] = "accepted"
                        /\ call[s].pc = "accept_reject" => x \notin discover
                 PROVE  Accepting(x)'
      BY DEF Accepting
    <3>1. CASE s = r
      BY <1>1, <1>2, <1>4, <1>7, <3>1 DEF Accepting, AcceptFill
    <3>2. CASE s # r
      BY <1>4, <1>7, <3>2 DEF Accepting, AcceptFill
    <3> QED  BY <3>1, <3>2
  <2>3. NobodyLeft(x) => NobodyLeft(x)'
    BY <1>2, <1>4, <1>7 DEF NobodyLeft, AcceptFill
  <2> QED  BY <1>4, <1>8, <2>1, <2>2, <2>3 DEF HireBudget
<1> QED  BY <1>4, <1>5, <1>6, <1>9, <1>10 DEF HiringInv

\* Turning the others down: nobody is left that could be hired.
LEMMA AcceptRejectOthersKeeps ==
  ASSUME HiringInv, NEW r \in Reqs, AcceptRejectOthers(r) PROVE HiringInv'
<1>1. PICK o \in Opportunities, b \in Users : o = call[r].id /\ b = call[r].builder
  BY DEF AcceptRejectOthers, At, HiringInv, HiringSound
<1>2. /\ CallsShape' /\ call'[r] = Idle /\ \A s \in Reqs \ {r} : call'[s] = call[s]
      /\ faults' = faults /\ faults \in Nat
      /\ Serial' => Serial /\ \A s \in Reqs \ {r} : call[s] = Idle
  BY HiringMoves DEF AcceptRejectOthers, At, Done
<1>3. PICK row \in [Users -> ApplicationStatuses \cup {Nothing}] :
        row = [x \in Users |-> IF x # b /\ applications[o][x] = "pending"
                               THEN "rejected" ELSE applications[o][x]]
  BY DEF HiringInv, TablesShape, ApplicationStatuses
<1>4. applications' = [applications EXCEPT ![o] = row]
  BY <1>1, <1>3 DEF AcceptRejectOthers
<1>5. \A x \in Users : row[x] # Nothing => Listed(o)
  BY <1>3, HiringAssumption DEF HiringInv, TablesShape, ApplicationStatuses
<1>6. \A x \in Users : (row[x] = "accepted") = (applications[o][x] = "accepted")
  BY <1>3
<1>7. applications'[o] = row
  BY <1>4 DEF HiringInv, TablesShape
<1>8. /\ CallsShape' /\ TablesShape' /\ OffersClose'
      /\ \A s \in Reqs : HiringSound(call[s])'
      /\ Serial' => \A x \in Opportunities \ {o} : HireBudget(x)'
  <2>1. HiringSound(Idle) /\ Idle.pc = "idle"
    BY DEF HiringSound, Idle
  <2>2. ChangesApplications(r, Idle, o, row)
    BY <1>1, <1>4, <1>5, <1>6, <2>1
    DEF ChangesApplications, AcceptRejectOthers, At, Done, accountVars
  <2> QED  BY <2>2, ApplicationsChange
<1>9. ASSUME Serial' PROVE HireBudget(o)'
  <2>1. HireBudget(o)
    BY <1>2, <1>9 DEF HiringInv
  <2>2. Hired(o)' = Hired(o) /\ discover' = discover
    BY <1>6, <1>7 DEF Hired, AcceptRejectOthers, discover, Listed
  <2>3. NobodyLeft(o) => NobodyLeft(o)'
    BY <1>2, <1>3, <1>7, <2>2 DEF NobodyLeft, Idle
  <2>4. Accepting(o) => NobodyLeft(o)'
    <3> SUFFICES ASSUME Accepting(o) PROVE NobodyLeft(o)'
      OBVIOUS
    <3>1. applications[o][b] = "accepted" /\ o \notin discover
      BY <1>1, <1>2, <1>9 DEF Accepting, Idle, AcceptRejectOthers, At
    <3>2. \A x \in Users : row[x] # "pending"
      BY <1>3, <3>1
    <3>3. \A s \in Reqs : call'[s] = Idle
      BY <1>2, <1>9
    <3> QED  BY <1>7, <2>2, <3>1, <3>2, <3>3 DEF NobodyLeft, Idle
  <2> QED  BY <1>2, <2>1, <2>2, <2>3, <2>4 DEF HireBudget
<1> QED  BY <1>8, <1>9 DEF HiringInv

\* Profiles: the handlers read and write no row of hiring.
LEMMA ProfilesKeepHiring ==
  ASSUME HiringInv, ProfilesNext, UNCHANGED hiringVars PROVE HiringInv'
<1>1. ASSUME NEW r \in Reqs, NEW c, Begin(r, c), UNCHANGED auth,
             c.pc \in {"profile_insert", "profile_write"}
      PROVE  HiringInv'
  <2>1. Moves(r, c) /\ r \in load.slots /\ call[r].pc = "idle"
    BY <1>1, BeginMoves DEF HiringInv, Idle
  <2>2. HiringSound(c)
    BY <1>1 DEF HiringSound
  <2> QED  BY <1>1, <2>1, <2>2, HiringReads
<1>2. ASSUME NEW r \in Reqs, Done(r), UNCHANGED auth,
             call[r].pc \in {"profile_insert", "profile_write"}
      PROVE  HiringInv'
  <2>1. Moves(r, Idle) /\ r \in load.slots
    BY <1>2, AwaitMoves, BusyHasSlot DEF HiringInv, Done
  <2>2. HiringSound(Idle) /\ Idle.pc = "idle"
    BY DEF HiringSound, Idle
  <2> QED  BY <1>2, <2>1, <2>2, HiringReads
<1>3. ASSUME NEW r \in Reqs, NEW u \in load.users, GetOrCreateRead(r, u) \/ UpdateProfileRead(r, u)
      PROVE  \E c : Begin(r, c) /\ UNCHANGED auth /\ c.pc \in {"profile_insert", "profile_write"}
  <2>1. PICK type \in AccountTypes :
          \/ Begin(r, [pc |-> "profile_insert", wallet |-> walletForUserId(u), type |-> type])
          \/ Begin(r, [pc |-> "profile_write", wallet |-> walletForUserId(u), type |-> type])
    BY <1>3 DEF GetOrCreateRead, UpdateProfileRead
  <2> QED  BY <1>3, <2>1 DEF GetOrCreateRead, UpdateProfileRead, accountVars
<1>4. ASSUME NEW r \in Reqs, GetOrCreateInsert(r) \/ UpdateProfileWrite(r)
      PROVE  Done(r) /\ UNCHANGED auth /\ call[r].pc \in {"profile_insert", "profile_write"}
  BY <1>4 DEF GetOrCreateInsert, UpdateProfileWrite, At
<1> QED  BY <1>1, <1>2, <1>3, <1>4 DEF ProfilesNext

LEMMA HiringBegins ==
  ASSUME HiringInv, NEW r \in Reqs, NEW c, Begin(r, c), UNCHANGED <<hiringVars, accountVars>>,
         HiringSound(c), c.pc \in {"application_insert", "application_write"} => ~NobodyLeft(c.id)
  PROVE  HiringInv'
<1>1. Moves(r, c) /\ r \in load.slots /\ call[r].pc = "idle"
  BY BeginMoves DEF HiringInv, Idle
<1> QED  BY <1>1, HiringReads DEF accountVars

LEMMA OpportunityCreateKeeps ==
  ASSUME HiringInv, NEW r \in Reqs, NEW u \in load.users, OpportunityCreate(r, u)
  PROVE  HiringInv'
<1>1. u \in Users
  BY CallsAssumption DEF HiringInv, CallsShape
<1>2. PICK c : c = [pc |-> "opportunity_insert", project |-> walletForUserId(u)]
  OBVIOUS
<1>3. HiringSound(c)
  BY <1>1, <1>2 DEF HiringSound, HiringInv, TablesShape
<1> QED  BY <1>2, <1>3, HiringBegins DEF OpportunityCreate

LEMMA HiringReadsKeep ==
  ASSUME HiringInv, NEW r \in Reqs, NEW u \in load.users, NEW o \in Opportunities,
         \/ \E to \in OpportunityStatuses : OpportunityUpdateRead(r, u, o, to)
         \/ OpportunityRemoveRead(r, u, o)
         \/ ApplyRead(r, u, o)
         \/ \E b \in load.users, status \in {"accepted", "rejected"} :
              DecideRead(r, u, o, b, status)
  PROVE  HiringInv'
<1>1. load.users \subseteq Users
  BY CallsAssumption DEF HiringInv, CallsShape
<1>2. ASSUME NEW to \in OpportunityStatuses, OpportunityUpdateRead(r, u, o, to) PROVE HiringInv'
  <2>1. PICK c : c = [pc |-> "opportunity_write", id |-> o, status |-> to]
    OBVIOUS
  <2>2. HiringSound(c)
    BY <1>2, <2>1 DEF HiringSound, OpportunityUpdateRead, isAllowedStatusTransition
  <2> QED  BY HiringBegins, <1>2, <2>1, <2>2 DEF OpportunityUpdateRead
<1>3. CASE OpportunityRemoveRead(r, u, o)
  <2>1. PICK c : c = [pc |-> "opportunity_delete", id |-> o]
    OBVIOUS
  <2>2. HiringSound(c)
    BY <2>1 DEF HiringSound
  <2> QED  BY HiringBegins, <1>3, <2>1, <2>2 DEF OpportunityRemoveRead
<1>4. CASE ApplyRead(r, u, o)
  <2>1. PICK c : c = [pc |-> "application_insert", id |-> o, builder |-> u]
    OBVIOUS
  <2>2. HiringSound(c)
    BY <1>1, <2>1 DEF HiringSound
  <2>3. ~NobodyLeft(o)
    BY <1>4 DEF ApplyRead, NobodyLeft, discover
  <2> QED  BY HiringBegins, <1>4, <2>1, <2>2, <2>3 DEF ApplyRead
<1>5. ASSUME NEW b \in load.users, NEW status \in {"accepted", "rejected"},
             DecideRead(r, u, o, b, status)
      PROVE  HiringInv'
  <2>1. PICK c : c = [pc |-> "application_write", id |-> o, builder |-> b, status |-> status]
    OBVIOUS
  <2>2. HiringSound(c)
    BY <1>1, <2>1 DEF HiringSound
  <2>3. ~NobodyLeft(o)
    BY <1>1, <1>5 DEF DecideRead, NobodyLeft
  <2> QED  BY HiringBegins, <1>5, <2>1, <2>2, <2>3 DEF DecideRead
<1> QED  BY <1>2, <1>3, <1>4, <1>5

LEMMA HiringStep == ASSUME HiringInv, HiringNext PROVE HiringInv'
<1>1. CASE OpportunitiesNext
  BY <1>1, OpportunityCreateKeeps, OpportunityInsertKeeps, OpportunityUpdateWriteKeeps,
     OpportunityDeleteKeeps, HiringReadsKeep DEF OpportunitiesNext
<1>2. CASE ApplicationsNext
  BY <1>2, HiringReadsKeep, ApplyInsertKeeps, DecideWriteKeeps, AcceptFillKeeps,
     AcceptRejectOthersKeeps DEF ApplicationsNext
<1>3. CASE ProfilesNext /\ UNCHANGED hiringVars
  BY <1>3, ProfilesKeepHiring
<1>4. ASSUME NEW r \in Reqs, HiringDies(r) PROVE HiringInv'
  <2>1. Moves(r, Idle) /\ r \in load.slots /\ faults' > faults
    BY <1>4, DiesMoves DEF HiringDies, HiringInv, CallsShape
  <2>2. HiringSound(Idle) /\ Idle.pc = "idle"
    BY DEF HiringSound, Idle
  <2> QED  BY <1>4, <2>1, <2>2, HiringReads DEF HiringDies, accountVars
<1> QED  BY <1>1, <1>2, <1>3, <1>4 DEF HiringNext

\* What holds of hiring, whether a behaviour serves it or not.
HiringServed == IF Serves("hiring") THEN HiringInv ELSE HiringInit /\ faults \in Nat

LEMMA HiringServedInit == ServicesInit => HiringServed
  BY HiringInitInv DEF ServicesInit, HiringServed, CallsInit

LEMMA HiringServedStep == HiringServed /\ [ServicesNext]_serviceVars => HiringServed'
<1> SUFFICES ASSUME HiringServed, [ServicesNext]_serviceVars PROVE HiringServed'
  OBVIOUS
<1>1. Proceeds
  BY LoadKept
<1>2. CASE ~Serves("hiring")
  <2>1. UNCHANGED hiringVars
    BY <1>2 DEF ServicesNext, serviceVars, tableVars, HiringNext
  <2> QED  BY <1>1, <1>2, <2>1 DEF HiringServed, HiringInit, hiringVars, Proceeds, Serves
<1>3. CASE Serves("hiring") /\ HiringNext
  BY <1>1, <1>3, HiringStep DEF HiringServed, Proceeds, Serves
<1>4. CASE Serves("hiring") /\ UNCHANGED serviceVars
  <2>1. UNCHANGED <<call, load, served, faults, auth, opportunities, applications>>
    BY <1>4 DEF serviceVars, callVars, accountVars, tableVars, hiringVars
  <2>2. HiringInv
    BY <1>4 DEF HiringServed
  <2>3. CallsShape' /\ (\A r \in Reqs : HiringSound(call[r])') /\ (Serial' => Serial)
    BY <2>1, <2>2 DEF HiringInv, CallsShape, HiringSound, Serial
  <2>4. TablesShape' /\ OffersClose'
    BY <2>1, <2>2
    DEF HiringInv, TablesShape, OffersClose, discover, Hired, Listed, walletForUserId
  <2>5. \A o \in Opportunities : HireBudget(o) => HireBudget(o)'
    BY <2>1 DEF HireBudget, Accepting, NobodyLeft, Hired, discover, Listed
  <2>6. HiringInv'
    BY <2>2, <2>3, <2>4, <2>5 DEF HiringInv
  <2> QED  BY <1>1, <1>4, <2>6 DEF HiringServed, Proceeds, Serves
<1> QED  BY <1>2, <1>3, <1>4 DEF ServicesNext, Serves

LEMMA HiringAlways == ServicesSpec => []HiringServed
  BY HiringServedInit, HiringServedStep, PTL DEF ServicesSpec

\* Hiring: when requests do not overlap an opportunity hires one builder, and
\* one more for each decision that failed half way.
THEOREM HiresOne == ServicesSpec => []OneHire
<1>1. HiringServed => OneHire
  <2> SUFFICES ASSUME HiringServed, Serial, NEW o \in Opportunities
               PROVE  Cardinality(Hired(o)) <= 1 + faults
    BY DEF OneHire
  <2>1. CASE Serves("hiring")
    BY <2>1 DEF HiringServed, HiringInv, HireBudget
  <2>2. CASE ~Serves("hiring")
    <3>1. Hired(o) = {} /\ faults \in Nat
      BY <2>2, HiringAssumption DEF HiringServed, HiringInit, Hired, ApplicationStatuses
    <3> QED  BY <3>1, FS_EmptySet
  <2> QED  BY <2>1, <2>2
<1> QED  BY <1>1, HiringAlways, PTL

\* Hiring: however requests overlap, an opportunity that hired someone is no
\* longer offered once they are over and none has failed.
THEOREM HiredIsClosed == ServicesSpec => []HiredIsNotOffered
<1>1. HiringServed => HiredIsNotOffered
  <2> SUFFICES ASSUME HiringServed, AllIdle, faults = 0, NEW o \in discover PROVE Hired(o) = {}
    BY DEF HiredIsNotOffered
  <2>1. CASE Serves("hiring")
    BY <2>1 DEF HiringServed, HiringInv, OffersClose, AllIdle, Idle
  <2>2. CASE ~Serves("hiring")
    BY <2>2 DEF HiringServed, HiringInit, discover, Listed
  <2> QED  BY <2>1, <2>2
<1> QED  BY <1>1, HiringAlways, PTL

(***************************************************************************)
(* KYC                                                                     *)
(***************************************************************************)

\* The row's reference names a session of the same user at the same provider.
RefersTo(reference, x, p) ==
    IF p = "sumsub" THEN reference = [user |-> x, session |-> 0]
    ELSE \E s \in SessionIds :
           /\ reference = [user |-> Nothing, session |-> s]
           /\ sessions[s] # Nothing /\ sessions[s].user = x /\ sessions[s].provider = p

\* What the provider has said of a session the reference names.
SaidUnder(reference, x, p, status) ==
    \E s \in SessionIds :
        /\ sessions[s] # Nothing /\ sessions[s].user = x /\ sessions[s].provider = p
        /\ ReferenceOf(s) = reference
        /\ \E word \in sessions[s].said : status = mapProviderStatus(KycStatusOf(p, word))

RowTrue(x, p) ==
    LET row == verifications[x][p] IN
    /\ row = [reference |-> row.reference, status |-> row.status, verified_at |-> row.verified_at]
    /\ RefersTo(row.reference, x, p)
    /\ row.status = "pending" \/ SaidUnder(row.reference, x, p, row.status)
    /\ row.verified_at = (row.status = "verified")

RowsTrue ==
    /\ verifications = [x \in Subjects |-> [p \in KycProviders |-> verifications[x][p]]]
    /\ \A x \in Subjects : \A p \in KycProviders :
         verifications[x][p] # Nothing => x \in Users /\ RowTrue(x, p)

SessionsShape ==
    /\ sessions \in [SessionIds -> Session \cup {Nothing}]
    /\ \A s \in SessionIds : sessions[s] # Nothing =>
         sessions[s].said \subseteq DOMAIN PROVIDER_MAP[sessions[s].provider]

KycSound(c) ==
    /\ c.pc \in {"kyc_open", "kyc_write"} => c.user \in Users
    /\ c.pc = "kyc_write" =>
         /\ c.session \in SessionIds
         /\ sessions[c.session] # Nothing
         /\ sessions[c.session].user = c.user
         /\ sessions[c.session].provider = deployment.now

KycInv ==
    /\ CallsShape
    /\ deployment \in [now : KycProviders, next : KycProviders]
    /\ SessionsShape
    /\ RowsTrue
    /\ \A r \in Reqs : KycSound(call[r])

\* A word of one provider that another reads means the same to it, or the
\* other does not know it.
LEMMA WordAbroad ==
  ASSUME NEW p \in KycProviders, NEW q \in KycProviders, SessionField[p] = SessionField[q],
         NEW word \in DOMAIN PROVIDER_MAP[p]
  PROVE  mapProviderStatus(KycStatusOf(q, word))
           \in {"pending", mapProviderStatus(KycStatusOf(p, word))}
<1>1. p = q \/ {p, q} = {"veriff", "synaps"}
  BY DEF KycProviders, SessionField
<1>2. PROVIDER_MAP["veriff"] = VeriffWords /\ PROVIDER_MAP["synaps"] = SynapsWords
  BY DEF PROVIDER_MAP
<1>3. /\ DOMAIN VeriffWords = {"pending", "in_progress", "completed", "failed", "expired"}
      /\ DOMAIN SynapsWords = {"pending", "in_review", "approved", "rejected", "expired"}
  BY DEF VeriffWords, SynapsWords
<1>4. /\ VeriffWords["pending"] = SynapsWords["pending"]
      /\ VeriffWords["expired"] = SynapsWords["expired"]
      /\ SynapsWords["in_review"] = "in_review"
  BY DEF VeriffWords, SynapsWords
<1>5. CASE p = "veriff" /\ q = "synaps"
  BY <1>2, <1>3, <1>4, <1>5 DEF KycStatusOf, mapProviderStatus
<1>6. CASE p = "synaps" /\ q = "veriff"
  BY <1>2, <1>3, <1>4, <1>6 DEF KycStatusOf, mapProviderStatus
<1> QED  BY <1>1, <1>5, <1>6

\* Sessions are opened and spoken of, never changed.
Grows ==
    \A s \in SessionIds : sessions[s] # Nothing =>
        /\ sessions'[s] # Nothing
        /\ sessions'[s].user = sessions[s].user
        /\ sessions'[s].provider = sessions[s].provider
        /\ sessions[s].said \subseteq sessions'[s].said

LEMMA RowsGrow == ASSUME RowsTrue, Grows, UNCHANGED verifications PROVE RowsTrue'
<1>1. ASSUME NEW x \in Subjects, NEW p \in KycProviders, verifications[x][p] # Nothing
      PROVE  RowTrue(x, p)'
  <2>1. RowTrue(x, p)
    BY <1>1 DEF RowsTrue
  <2>2. PICK row : row = verifications[x][p] /\ row = verifications'[x][p]
    OBVIOUS
  <2>3. RefersTo(row.reference, x, p) => RefersTo(row.reference, x, p)'
    BY DEF RefersTo, Grows
  <2>4. SaidUnder(row.reference, x, p, row.status) => SaidUnder(row.reference, x, p, row.status)'
    BY DEF SaidUnder, Grows, ReferenceOf
  <2> QED  BY <2>1, <2>2, <2>3, <2>4 DEF RowTrue
<1> QED  BY <1>1 DEF RowsTrue

LEMMA KycCalls ==
  ASSUME KycInv, NEW r \in Reqs, NEW c, Moves(r, c), r \in load.slots, Grows,
         UNCHANGED deployment, KycSound(c)'
  PROVE  CallsShape' /\ \A s \in Reqs : KycSound(call[s])'
<1>1. CallsShape' /\ call'[r] = c /\ \A s \in Reqs \ {r} : call'[s] = call[s]
  BY CallsShapeMoves DEF KycInv
<1>2. ASSUME NEW s \in Reqs PROVE KycSound(call[s])'
  <2>1. CASE s = r
    <3>1. PICK d : d = call'[s]
      OBVIOUS
    <3> QED  BY <1>1, <2>1, <3>1 DEF KycSound
  <2>2. CASE s # r
    BY <1>1, <2>2 DEF KycInv, KycSound, Grows
  <2> QED  BY <2>1, <2>2
<1> QED  BY <1>1, <1>2

LEMMA KycCallsGrow ==
  ASSUME KycInv, Grows, UNCHANGED <<deployment, callVars>>
  PROVE  CallsShape' /\ \A s \in Reqs : KycSound(call[s])'
<1>1. CallsShape'
  BY DEF KycInv, CallsShape, callVars
<1>2. \A s \in Reqs : KycSound(call[s])'
  BY DEF KycInv, KycSound, Grows, callVars
<1> QED  BY <1>1, <1>2

\* Opening a session.
LEMMA OpensGrows ==
  ASSUME KycInv, NEW s \in SessionIds, NEW u \in Users, Opens(s, u)
  PROVE  Grows /\ SessionsShape' /\ sessions'[s] # Nothing /\ sessions'[s].user = u
         /\ sessions'[s].provider = deployment.now
<1>1. PICK session \in Session :
        /\ session = [user |-> u, provider |-> deployment.now, said |-> {}]
        /\ sessions' = [sessions EXCEPT ![s] = session]
  BY DEF Opens, KycInv, Session
<1>2. session # Nothing /\ session.said = {} /\ session.user = u
      /\ session.provider = deployment.now
  BY <1>1, IdentityAssumption
<1>3. sessions'[s] = session /\ \A t \in SessionIds \ {s} : sessions'[t] = sessions[t]
  BY <1>1 DEF KycInv, SessionsShape
<1>4. sessions' \in [SessionIds -> Session \cup {Nothing}]
  BY <1>1 DEF KycInv, SessionsShape
<1>5. Grows
  BY <1>3 DEF Opens, Grows
<1> QED  BY <1>2, <1>3, <1>4, <1>5 DEF SessionsShape, KycInv

LEMMA SaysKeeps ==
  ASSUME KycInv, NEW s \in SessionIds, NEW word \in Words, Says(s, word) PROVE KycInv'
<1>1. sessions[s] \in Session /\ sessions[s] # Nothing
  BY DEF Says, KycInv, SessionsShape
<1>2. PICK session \in Session :
        /\ session = [user |-> sessions[s].user, provider |-> sessions[s].provider,
                      said |-> sessions[s].said \cup {word}]
        /\ sessions' = [sessions EXCEPT ![s] = session]
  <2>1. [sessions[s] EXCEPT !.said = @ \cup {word}] =
          [user |-> sessions[s].user, provider |-> sessions[s].provider,
           said |-> sessions[s].said \cup {word}]
    BY <1>1 DEF Session
  <2>2. sessions' = [sessions EXCEPT ![s] = [sessions[s] EXCEPT !.said = @ \cup {word}]]
    BY DEF Says
  <2> QED  BY <1>1, <2>1, <2>2 DEF Session
<1>3. session # Nothing
  BY IdentityAssumption
<1>4. sessions'[s] = session /\ \A t \in SessionIds \ {s} : sessions'[t] = sessions[t]
  BY <1>2 DEF KycInv, SessionsShape
<1>5. SessionsShape'
  <2>1. sessions' \in [SessionIds -> Session \cup {Nothing}]
    BY <1>2 DEF KycInv, SessionsShape
  <2>2. PICK known : known = DOMAIN PROVIDER_MAP[sessions[s].provider]
    OBVIOUS
  <2>3. word \in known /\ sessions[s].said \subseteq known
    BY <1>1, <2>2 DEF KycInv, SessionsShape, Says
  <2>4. session.said \subseteq DOMAIN PROVIDER_MAP[session.provider]
    BY <1>2, <2>2, <2>3
  <2> QED  BY <1>4, <2>1, <2>4 DEF KycInv, SessionsShape
<1>6. Grows
  BY <1>2, <1>3, <1>4 DEF Grows
<1>7. RowsTrue'
  BY <1>6, RowsGrow DEF KycInv, Says
<1>8. CallsShape' /\ \A r \in Reqs : KycSound(call[r])'
  BY <1>6, KycCallsGrow DEF Says
<1> QED  BY <1>5, <1>7, <1>8 DEF KycInv, Says

LEMMA OpenDirectlyKeeps ==
  ASSUME KycInv, NEW u \in load.users, NEW s \in SessionIds, OpenDirectly(s, u) PROVE KycInv'
<1>1. u \in Users
  BY CallsAssumption DEF KycInv, CallsShape
<1>2. Grows /\ SessionsShape'
  BY <1>1, OpensGrows DEF OpenDirectly
<1>3. RowsTrue'
  BY <1>2, RowsGrow DEF KycInv, OpenDirectly
<1>4. CallsShape' /\ \A r \in Reqs : KycSound(call[r])'
  BY <1>2, KycCallsGrow DEF OpenDirectly
<1> QED  BY <1>2, <1>3, <1>4 DEF KycInv, OpenDirectly

LEMMA RedeployKeeps == ASSUME KycInv, Redeploy PROVE KycInv'
<1>1. CallsShape' /\ \A r \in Reqs : KycSound(call[r])'
  BY DEF KycInv, CallsShape, Redeploy, AllIdle, KycSound, Idle, callVars
<1>2. deployment' \in [now : KycProviders, next : KycProviders]
  BY DEF KycInv, Redeploy
<1>3. Grows /\ SessionsShape'
  BY DEF KycInv, SessionsShape, Grows, Redeploy
<1>4. RowsTrue'
  BY <1>3, RowsGrow DEF KycInv, Redeploy
<1> QED  BY <1>1, <1>2, <1>3, <1>4 DEF KycInv

\* A handler that reads, or ends without a write.
LEMMA KycReads ==
  ASSUME KycInv, NEW r \in Reqs, NEW c, Moves(r, c), r \in load.slots, UNCHANGED identityVars,
         KycSound(c)'
  PROVE  KycInv'
<1>1. UNCHANGED <<deployment, sessions, verifications>>
  BY DEF identityVars, kycVars
<1>2. Grows /\ SessionsShape'
  BY <1>1 DEF KycInv, SessionsShape, Grows
<1>3. RowsTrue'
  BY <1>1, <1>2, RowsGrow DEF KycInv
<1>4. CallsShape' /\ \A s \in Reqs : KycSound(call[s])'
  BY <1>1, <1>2, KycCalls
<1> QED  BY <1>1, <1>2, <1>3, <1>4 DEF KycInv

LEMMA KycCreateReadKeeps ==
  ASSUME KycInv, NEW r \in Reqs, NEW u \in load.users, KycCreateRead(r, u) PROVE KycInv'
<1>1. u \in Users
  BY CallsAssumption DEF KycInv, CallsShape
<1>2. PICK c : c = [pc |-> "kyc_open", user |-> u,
                    exists |-> (verifications[u][deployment.now] # Nothing)]
  OBVIOUS
<1>3. Moves(r, c) /\ r \in load.slots
  BY <1>2, BeginMoves DEF KycInv, KycCreateRead
<1>4. KycSound(c)'
  BY <1>1, <1>2 DEF KycSound
<1> QED  BY <1>3, <1>4, KycReads DEF KycCreateRead

LEMMA KycDiesKeeps == ASSUME KycInv, NEW r \in Reqs, KycDies(r) PROVE KycInv'
<1>1. Moves(r, Idle) /\ r \in load.slots
  BY DiesMoves DEF KycInv, KycDies
<1>2. KycSound(Idle)'
  BY DEF KycSound, Idle
<1> QED  BY <1>1, <1>2, KycReads DEF KycDies

LEMMA KycOpenKeeps == ASSUME KycInv, NEW r \in Reqs, KycOpen(r) PROVE KycInv'
<1>1. PICK u \in Users : u = call[r].user
  BY DEF KycOpen, At, KycInv, KycSound
<1>2. PICK s, c :
        /\ s \in SessionIds
        /\ Opens(s, u) /\ Await(r, c)
        /\ c = [pc |-> "kyc_write", user |-> u, exists |-> call[r].exists, session |-> s]
  BY <1>1 DEF KycOpen
<1>3. Grows /\ SessionsShape' /\ sessions'[s] # Nothing /\ sessions'[s].user = u
      /\ sessions'[s].provider = deployment.now
  BY <1>2, OpensGrows
<1>4. Moves(r, c) /\ r \in load.slots
  BY <1>2, AwaitMoves, BusyHasSlot DEF KycInv, KycOpen, At
<1>5. UNCHANGED <<deployment, verifications>>
  BY DEF KycOpen
<1>6. KycSound(c)'
  BY <1>2, <1>3, <1>5 DEF KycSound
<1>7. CallsShape' /\ \A x \in Reqs : KycSound(call[x])'
  BY <1>3, <1>4, <1>5, <1>6, KycCalls
<1>8. RowsTrue'
  BY <1>3, <1>5, RowsGrow DEF KycInv
<1> QED  BY <1>3, <1>5, <1>7, <1>8 DEF KycInv

\* A new session's row refers to it and is pending.
LEMMA KycWriteKeeps == ASSUME KycInv, NEW r \in Reqs, KycWrite(r) PROVE KycInv'
<1>1. PICK u \in Users, s \in SessionIds, p \in KycProviders :
        /\ u = call[r].user /\ s = call[r].session /\ p = deployment.now
        /\ sessions[s] # Nothing /\ sessions[s].user = u /\ sessions[s].provider = p
  BY DEF KycWrite, At, KycInv, KycSound
<1>2. PICK row : row = [reference |-> ReferenceOf(s), status |-> "pending", verified_at |-> FALSE]
  OBVIOUS
<1>3. verifications' = [verifications EXCEPT ![u][p] = row] \/ verifications' = verifications
  BY <1>1, <1>2 DEF KycWrite, mapProviderStatus
<1>4. UNCHANGED <<deployment, sessions>>
  BY DEF KycWrite
<1>5. Grows /\ SessionsShape'
  BY <1>4 DEF Grows, KycInv, SessionsShape
<1>6. CallsShape' /\ \A x \in Reqs : KycSound(call[x])'
  <2>1. Moves(r, Idle) /\ r \in load.slots
    BY AwaitMoves, BusyHasSlot DEF KycInv, KycWrite, At, Done
  <2>2. KycSound(Idle)'
    BY DEF KycSound, Idle
  <2> QED  BY <1>4, <1>5, <2>1, <2>2, KycCalls
<1>7. RowsTrue'
  <2>1. CASE verifications' = verifications
    BY <1>5, <2>1, RowsGrow DEF KycInv
  <2>2. CASE verifications' = [verifications EXCEPT ![u][p] = row]
    <3>1. /\ u \in Subjects
          /\ verifications' = [x \in Subjects |-> [q \in KycProviders |->
               IF x = u /\ q = p THEN row ELSE verifications[x][q]]]
      BY <2>2 DEF KycInv, RowsTrue, Subjects
    <3>2. /\ verifications'[u][p] = row
          /\ \A x \in Subjects, q \in KycProviders :
               x # u \/ q # p => verifications'[x][q] = verifications[x][q]
      BY <3>1
    <3>3. verifications' = [x \in Subjects |-> [q \in KycProviders |-> verifications'[x][q]]]
      BY <3>1
    <3>4. RefersTo(row.reference, u, p)
      BY <1>1, <1>2 DEF RefersTo, ReferenceOf
    <3>5. RowTrue(u, p)'
      <4>1. RefersTo(row.reference, u, p)'
        BY <1>4, <3>4 DEF RefersTo
      <4>2. row = [reference |-> row.reference, status |-> row.status,
                   verified_at |-> row.verified_at]
        BY <1>2
      <4>3. row.status = "pending" /\ row.verified_at = FALSE
        BY <1>2
      <4>4. row.verified_at = (row.status = "verified")
        BY <4>3
      <4> QED  BY <3>2, <4>1, <4>2, <4>3, <4>4 DEF RowTrue
    <3>6. ASSUME NEW x \in Subjects, NEW q \in KycProviders, x # u \/ q # p,
                 verifications'[x][q] # Nothing
          PROVE  x \in Users /\ RowTrue(x, q)'
      <4>1. PICK old : old = verifications[x][q] /\ old = verifications'[x][q]
        BY <3>2, <3>6
      <4>2. x \in Users /\ RowTrue(x, q)
        BY <3>2, <3>6 DEF KycInv, RowsTrue
      <4>3. /\ RefersTo(old.reference, x, q) => RefersTo(old.reference, x, q)'
            /\ SaidUnder(old.reference, x, q, old.status)
                 => SaidUnder(old.reference, x, q, old.status)'
        BY <1>4 DEF RefersTo, SaidUnder, ReferenceOf
      <4> QED  BY <4>1, <4>2, <4>3 DEF RowTrue
    <3> QED  BY <3>3, <3>5, <3>6 DEF RowsTrue
  <2> QED  BY <1>3, <2>1, <2>2
<1> QED  BY <1>4, <1>5, <1>6, <1>7 DEF KycInv

\* A webhook says of the rows that name its session what the session's own
\* provider has said.
LEMMA WebhookSays ==
  ASSUME KycInv, NEW s \in SessionIds, NEW word \in Words, Webhook(s, word),
         NEW x \in Subjects, NEW p \in KycProviders, verifications[x][p] # Nothing,
         verifications[x][p].reference = ReferenceOf(s),
         NEW status, status = mapProviderStatus(KycStatusOf(deployment.now, word))
  PROVE  status = "pending" \/ SaidUnder(ReferenceOf(s), x, p, status)
<1>1. /\ sessions[s] # Nothing /\ word \in sessions[s].said
      /\ SessionField[sessions[s].provider] = SessionField[deployment.now]
  BY DEF Webhook, WordsSaid
<1>2. /\ sessions[s] \in Session /\ word \in DOMAIN PROVIDER_MAP[sessions[s].provider]
      /\ deployment.now \in KycProviders
  BY <1>1 DEF KycInv, SessionsShape
<1>3. RefersTo(ReferenceOf(s), x, p) /\ x \in Users
  BY DEF KycInv, RowsTrue, RowTrue
<1>4. sessions[s].user = x /\ sessions[s].provider = p
  <2>1. sessions[s].user \in Users /\ sessions[s].user # Nothing
    BY <1>2, AccountsAssumption DEF Session
  <2>2. CASE p = "sumsub"
    <3>1. ReferenceOf(s) = [user |-> x, session |-> 0]
      BY <1>3, <2>2 DEF RefersTo
    <3>2. sessions[s].provider = "sumsub"
      BY <1>3, <3>1, AccountsAssumption DEF ReferenceOf
    <3> QED  BY <2>2, <3>1, <3>2 DEF ReferenceOf
  <2>3. CASE p # "sumsub"
    <3>1. PICK t \in SessionIds :
            /\ ReferenceOf(s) = [user |-> Nothing, session |-> t]
            /\ sessions[t].user = x /\ sessions[t].provider = p
      BY <1>3, <2>3 DEF RefersTo
    <3>2. s = t
      BY <2>1, <3>1 DEF ReferenceOf
    <3> QED  BY <3>1, <3>2
  <2> QED  BY <2>2, <2>3
<1>5. status \in {"pending", mapProviderStatus(KycStatusOf(p, word))}
  BY <1>1, <1>2, <1>4, WordAbroad
<1> QED  BY <1>1, <1>4, <1>5 DEF SaidUnder

LEMMA RowUpdated ==
  ASSUME NEW old, NEW reference, NEW status, NEW verified,
         old = [reference |-> reference, status |-> old.status, verified_at |-> old.verified_at]
  PROVE  [old EXCEPT !.status = status, !.verified_at = verified] =
           [reference |-> reference, status |-> status, verified_at |-> verified]
<1>1. PICK a, b : old = [reference |-> reference, status |-> a, verified_at |-> b]
  OBVIOUS
<1>2. [old EXCEPT !.status = status] =
        [reference |-> reference, status |-> status, verified_at |-> b]
  BY <1>1
<1>3. PICK half : half = [old EXCEPT !.status = status]
  OBVIOUS
<1>4. half = [reference |-> reference, status |-> status, verified_at |-> b]
  BY <1>2, <1>3
<1>5. [half EXCEPT !.verified_at = verified] =
        [reference |-> reference, status |-> status, verified_at |-> verified]
  BY <1>4
<1>6. [old EXCEPT !.status = status, !.verified_at = verified] =
        [[old EXCEPT !.status = status] EXCEPT !.verified_at = verified]
  BY <1>1
<1> QED  BY <1>3, <1>5, <1>6

LEMMA WebhookKeeps ==
  ASSUME KycInv, NEW s \in SessionIds, NEW word \in Words, Webhook(s, word) PROVE KycInv'
<1>1. UNCHANGED <<deployment, sessions, callVars>>
  BY DEF Webhook
<1>2. Grows /\ SessionsShape'
  BY <1>1 DEF Grows, KycInv, SessionsShape
<1>3. CallsShape' /\ \A r \in Reqs : KycSound(call[r])'
  BY <1>1, <1>2, KycCallsGrow
<1>4. PICK status, reference :
        /\ status = mapProviderStatus(KycStatusOf(deployment.now, word))
        /\ reference = ReferenceOf(s)
  OBVIOUS
<1>5. verifications' =
        [x \in Subjects |-> [p \in KycProviders |->
           IF verifications[x][p] # Nothing /\ verifications[x][p].reference = reference
           THEN [verifications[x][p] EXCEPT !.status = status,
                                            !.verified_at = (status = "verified")]
           ELSE verifications[x][p]]]
  BY <1>4 DEF Webhook
<1>6. verifications' = [x \in Subjects |-> [p \in KycProviders |-> verifications'[x][p]]]
  BY <1>5
<1>7. ASSUME NEW x \in Subjects, NEW p \in KycProviders, verifications'[x][p] # Nothing
      PROVE  x \in Users /\ RowTrue(x, p)'
  <2>1. CASE verifications[x][p] # Nothing /\ verifications[x][p].reference = reference
    <3>1. PICK old : old = verifications[x][p]
      OBVIOUS
    <3>2. x \in Users /\ RefersTo(reference, x, p)
          /\ old = [reference |-> reference, status |-> old.status, verified_at |-> old.verified_at]
      BY <2>1, <3>1 DEF KycInv, RowsTrue, RowTrue
    <3>3. PICK verified : verified = (status = "verified")
      OBVIOUS
    <3>4. verifications'[x][p] = [old EXCEPT !.status = status, !.verified_at = verified]
      BY <1>5, <2>1, <3>1, <3>3
    <3>5. PICK row : /\ row = verifications'[x][p]
                     /\ row = [reference |-> reference, status |-> status, verified_at |-> verified]
      BY ZenonT(60), <3>2, <3>4, RowUpdated
    <3>6. row.reference = reference /\ row.status = status /\ row.verified_at = (status = "verified")
      BY <3>3, <3>5
    <3>7. status = "pending" \/ SaidUnder(reference, x, p, status)
      BY <1>4, <2>1, WebhookSays
    <3>8. /\ RefersTo(reference, x, p)'
          /\ status = "pending" \/ SaidUnder(reference, x, p, status)'
      BY <1>1, <3>2, <3>7 DEF RefersTo, SaidUnder, ReferenceOf
    <3>9. RowTrue(x, p)'
      BY <3>5, <3>6, <3>8 DEF RowTrue
    <3> QED  BY <3>2, <3>9
  <2>2. CASE ~(verifications[x][p] # Nothing /\ verifications[x][p].reference = reference)
    <3>1. PICK old : old = verifications[x][p] /\ old = verifications'[x][p]
      BY <1>5, <2>2
    <3>2. x \in Users /\ RowTrue(x, p)
      BY <1>7, <3>1 DEF KycInv, RowsTrue
    <3>3. /\ RefersTo(old.reference, x, p) => RefersTo(old.reference, x, p)'
          /\ SaidUnder(old.reference, x, p, old.status)
               => SaidUnder(old.reference, x, p, old.status)'
      BY <1>1 DEF RefersTo, SaidUnder, ReferenceOf
    <3> QED  BY <3>1, <3>2, <3>3 DEF RowTrue
  <2> QED  BY <2>1, <2>2
<1>8. RowsTrue'
  BY <1>6, <1>7 DEF RowsTrue
<1> QED  BY <1>1, <1>2, <1>3, <1>8 DEF KycInv

LEMMA KycStep == ASSUME KycInv, KycNext PROVE KycInv'
  BY OpenDirectlyKeeps, SaysKeeps, WebhookKeeps, RedeployKeeps, KycCreateReadKeeps, KycOpenKeeps,
     KycWriteKeeps, KycDiesKeeps DEF KycNext

LEMMA KycInitInv == CallsInit /\ IdentityInit => KycInv
<1> SUFFICES ASSUME CallsInit, IdentityInit PROVE KycInv
  OBVIOUS
<1>1. CallsShape /\ \A r \in Reqs : KycSound(call[r])
  BY CallsShapeInit DEF CallsInit, KycSound, Idle
<1>2. deployment \in [now : KycProviders, next : KycProviders]
  BY IdentityAssumption DEF IdentityInit
<1>3. SessionsShape
  BY DEF IdentityInit, SessionsShape
<1>4. RowsTrue
  BY DEF IdentityInit, RowsTrue
<1> QED  BY <1>1, <1>2, <1>3, <1>4 DEF KycInv

KycServed == IF Serves("kyc") THEN KycInv ELSE \A x \in Subjects : verifications[x] =
                                              [p \in KycProviders |-> Nothing]

LEMMA KycServedInit == ServicesInit => KycServed
  BY KycInitInv DEF ServicesInit, KycServed, IdentityInit

LEMMA KycServedStep == KycServed /\ [ServicesNext]_serviceVars => KycServed'
<1> SUFFICES ASSUME KycServed, [ServicesNext]_serviceVars PROVE KycServed'
  OBVIOUS
<1>1. load' = load
  BY LoadKept DEF Proceeds
<1>2. CASE ~Serves("kyc")
  <2>1. UNCHANGED verifications
    BY <1>2 DEF ServicesNext, serviceVars, tableVars, identityVars, kycVars, KybNext, KybCreateRead,
         KybOpen, KybWrite, KybReviewRead, KybReviewWrite, KybDies
  <2> QED  BY <1>1, <1>2, <2>1 DEF KycServed, Serves
<1>3. CASE Serves("kyc") /\ KycNext
  BY <1>1, <1>3, KycStep DEF KycServed, Serves
<1>4. CASE Serves("kyc") /\ UNCHANGED serviceVars
  <2>1. UNCHANGED <<callVars, identityVars>> /\ KycInv
    BY <1>4 DEF serviceVars, tableVars, KycServed
  <2>2. UNCHANGED deployment /\ Grows /\ SessionsShape' /\ UNCHANGED verifications
    BY <2>1 DEF identityVars, kycVars, Grows, KycInv, SessionsShape
  <2>3. CallsShape' /\ \A r \in Reqs : KycSound(call[r])'
    BY <2>1, <2>2, KycCallsGrow
  <2>4. RowsTrue'
    BY <2>1, <2>2, RowsGrow DEF KycInv
  <2>5. KycInv'
    BY <2>1, <2>2, <2>3, <2>4 DEF KycInv
  <2> QED  BY <1>1, <1>4, <2>5 DEF KycServed, Serves
<1> QED  BY <1>2, <1>3, <1>4 DEF ServicesNext, Serves

\* KYC: however sessions, deployments and webhooks mix, a row says what its
\* provider has said of the very session it refers to.
THEOREM StatusIsSaid == ServicesSpec => []StatusIsTheSessions
<1>1. KycServed => StatusIsTheSessions
  <2> SUFFICES ASSUME KycServed, NEW x \in Users
               PROVE  /\ \A p \in KycProviders : verifications[x][p] # Nothing =>
                           /\ verifications[x][p].status \in {"pending"} \cup SaidOf(x, p)
                           /\ verifications[x][p].verified_at =
                                (verifications[x][p].status = "verified")
                      /\ aggregate(x) = "verified" => \E p \in KycProviders :
                           verifications[x][p] # Nothing /\ "verified" \in SaidOf(x, p)
    BY DEF StatusIsTheSessions
  <2>1. ASSUME NEW p \in KycProviders, verifications[x][p] # Nothing
        PROVE  /\ verifications[x][p].status \in {"pending"} \cup SaidOf(x, p)
               /\ verifications[x][p].verified_at = (verifications[x][p].status = "verified")
    <3>1. x \in Subjects
      BY DEF Subjects
    <3>2. Serves("kyc")
      BY <2>1, <3>1 DEF KycServed
    <3>3. RowTrue(x, p)
      BY <2>1, <3>1, <3>2 DEF KycServed, KycInv, RowsTrue
    <3>4. PICK status : status = verifications[x][p].status
      OBVIOUS
    <3>5. SaidUnder(verifications[x][p].reference, x, p, status) => status \in SaidOf(x, p)
      BY DEF SaidUnder, SaidOf
    <3> QED  BY <3>3, <3>4, <3>5 DEF RowTrue
  <2>2. aggregate(x) = "verified" => "verified" \in RowStatuses(x)
    BY DEF aggregate
  <2> QED  BY <2>1, <2>2 DEF RowStatuses
<1>2. ServicesSpec => []KycServed
  BY KycServedInit, KycServedStep, PTL DEF ServicesSpec
<1> QED  BY <1>1, <1>2, PTL

(***************************************************************************)
(* KYB                                                                     *)
(***************************************************************************)
KybStatus(o) == IF kyb[o] = Nothing THEN "none" ELSE kyb[o].status

KybSound(c) ==
    /\ c.pc \in {"kyb_open", "kyb_write", "kyb_review"} => c.org \in Organizations
    /\ c.pc \in {"kyb_open", "kyb_write"} =>
         /\ c.user \in Users
         /\ c = [pc |-> c.pc, user |-> c.user, org |-> c.org, exists |-> c.exists]
         /\ c.exists => kyb[c.org] # Nothing
    /\ c.pc = "kyb_review" =>
         c.status \in {"in_review", "verified", "rejected"} /\ kyb[c.org] # Nothing

Verdicts(o) == ledger[o].verified + ledger[o].rejected

\* What a handler read is still so, and its session awaits a verdict.
KybDecided(c) ==
    /\ c.pc \in {"kyb_open", "kyb_write"} =>
         /\ KybStatus(c.org) \in {"none", "rejected"}
         /\ c.exists <=> KybStatus(c.org) # "none"
    /\ c.pc = "kyb_write" => Verdicts(c.org) < ledger[c.org].opened
    /\ c.pc = "kyb_review" => KybStatus(c.org) \in {"pending", "in_review"}

VerdictBudget(o) ==
    /\ Verdicts(o) <= ledger[o].opened
    /\ ledger[o].opened <= 1 + ledger[o].rejected + faults
    /\ ledger[o].verified = (IF KybStatus(o) = "verified" THEN 1 ELSE 0)
    /\ KybStatus(o) \in {"pending", "in_review"} => Verdicts(o) < ledger[o].opened
    /\ KybStatus(o) \in {"none", "rejected"} =>
         \/ ledger[o].opened <= ledger[o].rejected + faults
         \/ \E r \in Reqs : call[r].pc = "kyb_write" /\ call[r].org = o

KybShape ==
    /\ kyb \in [Organizations -> KybRow \cup {Nothing}]
    /\ ledger \in [Organizations -> [opened : Nat, verified : Nat, rejected : Nat]]

KybInv ==
    /\ CallsShape
    /\ KybShape
    /\ \A r \in Reqs : KybSound(call[r])
    /\ Serial => /\ \A r \in Reqs : KybDecided(call[r])
                 /\ \A o \in Organizations : VerdictBudget(o)

WithStatus(row, status, verified) == [row EXCEPT !.status = status, !.verified_at = verified]

LEMMA KybRowUpdated ==
  ASSUME NEW row \in KybRow, NEW status \in {"pending", "in_review", "verified", "rejected"},
         NEW verified \in {TRUE, FALSE}
  PROVE  /\ WithStatus(row, status, verified) \in KybRow
         /\ WithStatus(row, status, verified) # Nothing
         /\ WithStatus(row, status, verified).status = status
<1>1. PICK half : half = [row EXCEPT !.status = status]
  OBVIOUS
<1>2. half \in KybRow /\ half.status = status
  BY <1>1 DEF KybRow
<1>3. PICK new : new = [half EXCEPT !.verified_at = verified]
  OBVIOUS
<1>4. new \in KybRow /\ new.status = status
  BY <1>2, <1>3 DEF KybRow
<1>5. [row EXCEPT !.status = status, !.verified_at = verified] =
        [[row EXCEPT !.status = status] EXCEPT !.verified_at = verified]
  BY DEF KybRow
<1>6. WithStatus(row, status, verified) = new
  BY <1>1, <1>3, <1>5 DEF WithStatus
<1> QED  BY <1>4, <1>6, IdentityAssumption

\* An organization whose row and ledger stay as they are.
LEMMA VerdictFrame ==
  ASSUME KybInv, NEW r \in Reqs, NEW c, Moves(r, c), r \in load.slots,
         NEW o \in Organizations, VerdictBudget(o),
         kyb'[o] = kyb[o], ledger'[o] = ledger[o],
         call[r].pc = "kyb_write" /\ call[r].org = o => faults' > faults
  PROVE  VerdictBudget(o)'
<1>1. CallsShape' /\ call'[r] = c /\ \A s \in Reqs \ {r} : call'[s] = call[s]
  BY CallsShapeMoves DEF KybInv
<1>2. KybStatus(o)' = KybStatus(o) /\ Verdicts(o)' = Verdicts(o)
  BY DEF KybStatus, Verdicts
<1>3. /\ ledger[o].opened \in Nat /\ ledger[o].rejected \in Nat
      /\ faults \in Nat /\ faults' \in Nat /\ faults' >= faults
  BY DEF KybInv, KybShape, CallsShape, Moves
<1>4. ledger[o].opened <= 1 + ledger[o].rejected + faults'
  BY <1>3 DEF VerdictBudget
<1>5. ASSUME KybStatus(o) \in {"none", "rejected"}
      PROVE  \/ ledger[o].opened <= ledger[o].rejected + faults'
             \/ \E s \in Reqs : call'[s].pc = "kyb_write" /\ call'[s].org = o
  <2>1. CASE ledger[o].opened <= ledger[o].rejected + faults
    BY <1>3, <2>1
  <2>2. ASSUME NEW s \in Reqs, call[s].pc = "kyb_write", call[s].org = o
        PROVE  \/ ledger[o].opened <= ledger[o].rejected + faults'
               \/ \E t \in Reqs : call'[t].pc = "kyb_write" /\ call'[t].org = o
    <3>1. CASE s # r
      BY <1>1, <2>2, <3>1
    <3>2. CASE s = r
      <4>1. faults' >= faults + 1
        BY <1>3, <2>2, <3>2
      <4> QED  BY <1>3, <4>1 DEF VerdictBudget
    <3> QED  BY <3>1, <3>2
  <2> QED  BY <1>5, <2>1, <2>2 DEF VerdictBudget
<1> QED  BY <1>2, <1>4, <1>5 DEF VerdictBudget

\* A step of one handler.
LEMMA KybMoves ==
  ASSUME KybInv, NEW r \in Reqs, NEW c, Moves(r, c), r \in load.slots, KybShape',
         \A o \in Organizations : kyb[o] # Nothing => kyb'[o] # Nothing,
         KybSound(c)', Serial => KybDecided(c)',
         Serial => \A o \in Organizations : VerdictBudget(o)'
  PROVE  KybInv'
<1>1. CallsShape' /\ call'[r] = c /\ \A s \in Reqs \ {r} : call'[s] = call[s]
  BY CallsShapeMoves DEF KybInv
<1>2. Serial' => Serial
  BY DEF Moves, Serial
<1>3. ASSUME NEW s \in Reqs PROVE KybSound(call[s])'
  <2>1. CASE s = r
    BY <1>1, <2>1 DEF KybSound
  <2>2. CASE s # r
    BY <1>1, <2>2 DEF KybInv, KybSound
  <2> QED  BY <2>1, <2>2
<1>4. ASSUME Serial', NEW s \in Reqs PROVE KybDecided(call[s])'
  <2>1. CASE s = r
    BY <1>1, <1>2, <1>4, <2>1 DEF KybDecided
  <2>2. CASE s # r
    <3>1. call'[s] = Idle
      <4>1. s \in load.slots => s = r
        BY <1>2, <1>4, SerialIsAlone DEF KybInv
      <4> QED  BY <1>1, <2>2, <4>1 DEF KybInv, CallsShape
    <3> QED  BY <3>1 DEF KybDecided, Idle
  <2> QED  BY <2>1, <2>2
<1> QED  BY <1>1, <1>2, <1>3, <1>4 DEF KybInv

\* A handler that leaves rows and ledger alone.
LEMMA KybReads ==
  ASSUME KybInv, NEW r \in Reqs, NEW c, Moves(r, c), r \in load.slots, UNCHANGED kybVars,
         KybSound(c), Serial => KybDecided(c), call[r].pc = "kyb_write" => faults' > faults
  PROVE  KybInv'
<1>1. KybShape' /\ \A o \in Organizations : kyb'[o] = kyb[o] /\ ledger'[o] = ledger[o]
  BY DEF KybInv, KybShape, kybVars
<1>2. KybSound(c)' /\ (Serial => KybDecided(c)')
  BY DEF KybSound, KybDecided, KybStatus, Verdicts, kybVars
<1>3. ASSUME Serial, NEW o \in Organizations PROVE VerdictBudget(o)'
  <2>1. VerdictBudget(o)
    BY <1>3 DEF KybInv
  <2> QED  BY <1>1, <2>1, VerdictFrame
<1> QED  BY <1>1, <1>2, <1>3, KybMoves

LEMMA KybBegins ==
  ASSUME KybInv, NEW r \in Reqs, NEW c, Begin(r, c), UNCHANGED kybVars,
         KybSound(c), Serial => KybDecided(c)
  PROVE  KybInv'
<1>1. Moves(r, c) /\ r \in load.slots /\ call[r].pc = "idle"
  BY BeginMoves DEF KybInv, Idle
<1> QED  BY <1>1, KybReads

LEMMA KybCreateReadKeeps ==
  ASSUME KybInv, NEW r \in Reqs, NEW u \in load.users, NEW o \in Organizations,
         KybCreateRead(r, u, o)
  PROVE  KybInv'
<1>1. u \in Users
  BY CallsAssumption DEF KybInv, CallsShape
<1>2. PICK c : c = [pc |-> "kyb_open", user |-> u, org |-> o, exists |-> (kyb[o] # Nothing)]
  OBVIOUS
<1>3. c.pc = "kyb_open" /\ c.user = u /\ c.org = o /\ (c.exists <=> kyb[o] # Nothing)
      /\ c = [pc |-> c.pc, user |-> c.user, org |-> c.org, exists |-> c.exists]
  BY <1>2
<1>4. KybSound(c)
  BY <1>1, <1>3 DEF KybSound
<1>5. KybDecided(c)
  BY <1>3 DEF KybDecided, KybStatus, KybCreateRead
<1> QED  BY <1>2, <1>4, <1>5, KybBegins DEF KybCreateRead, identityVars

LEMMA KybReviewReadKeeps ==
  ASSUME KybInv, NEW r \in Reqs, NEW u \in load.users, NEW o \in Organizations,
         NEW status \in {"in_review", "verified", "rejected"}, KybReviewRead(r, u, o, status)
  PROVE  KybInv'
<1>1. PICK c : c = [pc |-> "kyb_review", org |-> o, status |-> status]
  OBVIOUS
<1>2. KybSound(c)
  BY <1>1 DEF KybSound, KybReviewRead
<1>3. KybDecided(c)
  BY <1>1
  DEF KybDecided, KybStatus, KybReviewRead, FINALIZED_STATUSES, KybInv, KybShape, KybRow
<1> QED  BY <1>1, <1>2, <1>3, KybBegins DEF KybReviewRead, identityVars

\* The handler that waits with org has it as its own.
LEMMA KybOpenKeeps == ASSUME KybInv, NEW r \in Reqs, KybOpen(r) PROVE KybInv'
<1>1. PICK o, u, e :
        /\ o \in Organizations /\ u \in Users
        /\ call[r] = [pc |-> "kyb_open", user |-> u, org |-> o, exists |-> e]
  BY DEF KybOpen, At, KybInv, KybSound
<1> o \in Organizations /\ u \in Users
  BY <1>1
<1>2. PICK c : c = [pc |-> "kyb_write", user |-> u, org |-> o, exists |-> e]
  OBVIOUS
<1>3. Await(r, c) /\ ledger' = [ledger EXCEPT ![o].opened = ledger[o].opened + 1] /\ kyb' = kyb
  <2>1. [call[r] EXCEPT !.pc = "kyb_write"] = c
    BY <1>1, <1>2
  <2> QED  BY <1>1, <2>1 DEF KybOpen
<1>4. Moves(r, c) /\ r \in load.slots /\ UNCHANGED faults
  BY <1>1, <1>3, AwaitMoves, BusyHasSlot DEF KybInv
<1>5. ledger[o] \in [opened : Nat, verified : Nat, rejected : Nat]
  BY DEF KybInv, KybShape
<1>6. /\ ledger'[o].opened = ledger[o].opened + 1 /\ ledger'[o].verified = ledger[o].verified
      /\ ledger'[o].rejected = ledger[o].rejected
      /\ \A x \in Organizations \ {o} : ledger'[x] = ledger[x]
  BY <1>3, <1>5 DEF KybInv, KybShape
<1>7. KybShape'
  BY <1>3, <1>5 DEF KybInv, KybShape
<1>8. KybSound(c)'
  BY <1>1, <1>2, <1>3 DEF KybInv, KybSound
<1>9. ASSUME Serial
      PROVE  KybDecided(c)' /\ \A x \in Organizations : VerdictBudget(x)'
  <2>1. KybDecided(call[r]) /\ VerdictBudget(o)
    BY <1>9 DEF KybInv
  <2>2. KybStatus(o) \in {"none", "rejected"} /\ (e <=> KybStatus(o) # "none")
    BY <1>1, <2>1 DEF KybDecided
  <2>3. ~ \E s \in Reqs : call[s].pc = "kyb_write" /\ call[s].org = o
    BY <1>1, <1>4, <1>9, SerialIsAlone, BusyHasSlot DEF KybInv
  <2>4. ledger[o].opened <= ledger[o].rejected + faults
    BY <2>1, <2>2, <2>3 DEF VerdictBudget
  <2>5. KybStatus(o)' = KybStatus(o) /\ Verdicts(o)' = Verdicts(o)
    BY <1>3, <1>6 DEF KybStatus, Verdicts
  <2>6. Verdicts(o) <= ledger[o].opened /\ Verdicts(o) \in Nat /\ faults \in Nat
    BY <1>5, <2>1 DEF VerdictBudget, Verdicts, KybInv, CallsShape
  <2>7. KybDecided(c)'
    BY <1>2, <1>5, <1>6, <2>2, <2>5, <2>6 DEF KybDecided
  <2>8. \E s \in Reqs : call'[s].pc = "kyb_write" /\ call'[s].org = o
    BY <1>2, <1>4, CallsShapeMoves DEF KybInv
  <2>9. VerdictBudget(o)'
    BY <1>4, <1>5, <1>6, <2>1, <2>2, <2>4, <2>5, <2>6, <2>8 DEF VerdictBudget
  <2>10. ASSUME NEW x \in Organizations \ {o} PROVE VerdictBudget(x)'
    <3>1. VerdictBudget(x)
      BY <1>9 DEF KybInv
    <3> QED  BY <1>1, <1>3, <1>4, <1>6, <3>1, VerdictFrame
  <2> QED  BY <2>7, <2>9, <2>10
<1> QED  BY <1>3, <1>4, <1>7, <1>8, <1>9, KybMoves

LEMMA KybWriteKeeps == ASSUME KybInv, NEW r \in Reqs, KybWrite(r) PROVE KybInv'
<1>1. PICK o, u, e :
        /\ o \in Organizations /\ u \in Users
        /\ call[r] = [pc |-> "kyb_write", user |-> u, org |-> o, exists |-> e]
        /\ e => kyb[o] # Nothing
  BY DEF KybWrite, At, KybInv, KybSound
<1> o \in Organizations /\ u \in Users
  BY <1>1
<1>2. Moves(r, Idle) /\ r \in load.slots /\ UNCHANGED faults
  BY <1>1, AwaitMoves, BusyHasSlot DEF KybInv, KybWrite, Done
<1>3. \/ kyb' = kyb /\ ~e /\ kyb[o] # Nothing
      \/ \E row \in KybRow : kyb' = [kyb EXCEPT ![o] = row] /\ row.status = "pending"
  <2>1. CASE e
    <3>1. kyb[o] \in KybRow
      BY <1>1, <2>1 DEF KybInv, KybShape
    <3>2. PICK row \in KybRow : row = WithStatus(kyb[o], "pending", FALSE) /\ row.status = "pending"
      BY <3>1, KybRowUpdated
    <3>3. call[r].exists /\ call[r].org = o
      BY <1>1, <2>1
    <3>4. kyb' = [kyb EXCEPT ![call[r].org].status = "pending", ![call[r].org].verified_at = FALSE]
      BY <3>3 DEF KybWrite
    <3>5. kyb' = [kyb EXCEPT ![o].status = "pending", ![o].verified_at = FALSE]
      BY <3>3, <3>4
    <3>6. row = [kyb[o] EXCEPT !.status = "pending", !.verified_at = FALSE]
      BY <3>2 DEF WithStatus
    <3>7. kyb' = [kyb EXCEPT ![o] = row]
      BY <3>1, <3>5, <3>6 DEF KybInv, KybShape
    <3> QED  BY <3>2, <3>7
  <2>2. CASE ~e /\ kyb[o] = Nothing
    <3>1. PICK row \in KybRow :
            row = [requested_by |-> u, status |-> "pending", verified_at |-> FALSE]
      BY DEF KybRow
    <3>2. kyb' = [kyb EXCEPT ![o] = row]
      BY <1>1, <2>2, <3>1 DEF KybWrite
    <3> QED  BY <3>1, <3>2
  <2>3. CASE ~e /\ kyb[o] # Nothing
    BY <1>1, <2>3 DEF KybWrite
  <2> QED  BY <2>1, <2>2, <2>3
<1>4. KybShape' /\ \A x \in Organizations \ {o} : kyb'[x] = kyb[x]
  BY <1>3 DEF KybInv, KybShape, KybWrite
<1>5. kyb' = kyb \/ KybStatus(o)' = "pending"
  BY <1>3, IdentityAssumption DEF KybStatus, KybInv, KybShape
<1>6. \A x \in Organizations : kyb[x] # Nothing => kyb'[x] # Nothing
  BY <1>3, IdentityAssumption DEF KybInv, KybShape
<1>7. KybSound(Idle)' /\ KybDecided(Idle)'
  BY DEF KybSound, KybDecided, Idle
<1>8. ASSUME Serial, NEW x \in Organizations PROVE VerdictBudget(x)'
  <2>1. VerdictBudget(x)
    BY <1>8 DEF KybInv
  <2>2. CASE x # o
    <3>1. /\ kyb'[x] = kyb[x] /\ ledger'[x] = ledger[x]
          /\ ~(call[r].pc = "kyb_write" /\ call[r].org = x)
      <4>1. call[r].org = o
        BY <1>1
      <4>2. ledger' = ledger
        BY DEF KybWrite
      <4> QED  BY <1>4, <2>2, <4>1, <4>2
    <3> QED  BY <1>2, <2>1, <3>1, VerdictFrame
  <2>3. CASE x = o
    <3>1. KybStatus(o) \in {"none", "rejected"} /\ (e <=> KybStatus(o) # "none")
          /\ Verdicts(o) < ledger[o].opened
      BY <1>1, <1>8 DEF KybInv, KybDecided
    <3>2. ~(~e /\ kyb[o] # Nothing)
      BY <3>1, <1>1 DEF KybStatus, KybInv, KybShape, KybRow
    <3>3. KybStatus(o)' = "pending"
      BY <1>3, <3>2, IdentityAssumption DEF KybStatus, KybInv, KybShape
    <3>4. ledger' = ledger /\ Verdicts(o)' = Verdicts(o)
      BY DEF KybWrite, Verdicts
    <3>5. ledger[o].verified = 0
      BY <2>1, <2>3, <3>1 DEF VerdictBudget
    <3>6. faults' = faults /\ (Verdicts(o) < ledger[o].opened => Verdicts(o) <= ledger[o].opened)
      BY <1>2 DEF Verdicts, KybInv, KybShape
    <3>7. VerdictBudget(o)'
      BY <2>1, <2>3, <3>1, <3>3, <3>4, <3>5, <3>6 DEF VerdictBudget
    <3> QED  BY <2>3, <3>7
  <2> QED  BY <2>2, <2>3
<1> QED  BY <1>2, <1>4, <1>6, <1>7, <1>8, KybMoves

LEMMA KybReviewWriteKeeps == ASSUME KybInv, NEW r \in Reqs, KybReviewWrite(r) PROVE KybInv'
<1>1. PICK o \in Organizations, status \in {"in_review", "verified", "rejected"} :
        call[r].pc = "kyb_review" /\ call[r].org = o /\ call[r].status = status
        /\ kyb[o] # Nothing
  BY DEF KybReviewWrite, At, KybInv, KybSound
<1>2. Moves(r, Idle) /\ r \in load.slots /\ UNCHANGED faults
  BY <1>1, AwaitMoves, BusyHasSlot DEF KybInv, KybReviewWrite, Done
<1>3. PICK row \in KybRow : /\ kyb' = [kyb EXCEPT ![o] = row]
                            /\ row.status = status /\ row # Nothing
  <2>1. kyb[o] \in KybRow
    BY <1>1 DEF KybInv, KybShape
  <2>2. PICK verified \in {TRUE, FALSE} : verified = (status = "verified")
    OBVIOUS
  <2>3. PICK row \in KybRow : /\ row = WithStatus(kyb[o], status, verified)
                              /\ row.status = status /\ row # Nothing
    <3>1. /\ WithStatus(kyb[o], status, verified) \in KybRow
          /\ WithStatus(kyb[o], status, verified) # Nothing
          /\ WithStatus(kyb[o], status, verified).status = status
      <4>1. status \in {"pending", "in_review", "verified", "rejected"}
        OBVIOUS
      <4>2. verified \in {TRUE, FALSE}
        OBVIOUS
      <4> QED  BY ZenonT(60), <2>1, <4>1, <4>2, KybRowUpdated
    <3> QED  BY <3>1
  <2>4. kyb' = [kyb EXCEPT ![o] = row]
    <3>1. row = [kyb[o] EXCEPT !.status = status, !.verified_at = verified]
      BY <2>3 DEF WithStatus
    <3>2. kyb' = [kyb EXCEPT ![o].status = status, ![o].verified_at = verified]
      BY <1>1, <2>2 DEF KybReviewWrite
    <3> QED  BY <2>1, <3>1, <3>2 DEF KybInv, KybShape
  <2> QED  BY <2>3, <2>4
<1>4. ledger[o] \in [opened : Nat, verified : Nat, rejected : Nat]
  BY DEF KybInv, KybShape
<1>5. /\ ledger' \in [Organizations -> [opened : Nat, verified : Nat, rejected : Nat]]
      /\ \A x \in Organizations \ {o} : ledger'[x] = ledger[x]
      /\ ledger'[o].opened = ledger[o].opened
      /\ ledger'[o].verified = ledger[o].verified + (IF status = "verified" THEN 1 ELSE 0)
      /\ ledger'[o].rejected = ledger[o].rejected + (IF status = "rejected" THEN 1 ELSE 0)
  <2>1. CASE status = "in_review"
    BY <1>1, <1>4, <2>1 DEF KybReviewWrite, FINALIZED_STATUSES, KybInv, KybShape
  <2>2. CASE status = "verified"
    <3>1. ledger' = [ledger EXCEPT ![o].verified = ledger[o].verified + 1]
      BY <1>1, <2>2 DEF KybReviewWrite, FINALIZED_STATUSES
    <3> QED  BY <1>4, <2>2, <3>1 DEF KybInv, KybShape
  <2>3. CASE status = "rejected"
    <3>1. ledger' = [ledger EXCEPT ![o].rejected = ledger[o].rejected + 1]
      BY <1>1, <2>3 DEF KybReviewWrite, FINALIZED_STATUSES
    <3> QED  BY <1>4, <2>3, <3>1 DEF KybInv, KybShape
  <2> QED  BY <2>1, <2>2, <2>3
<1>6. /\ KybShape' /\ KybStatus(o)' = status
      /\ \A x \in Organizations \ {o} : kyb'[x] = kyb[x]
      /\ \A x \in Organizations : kyb[x] # Nothing => kyb'[x] # Nothing
  BY <1>3, <1>5 DEF KybInv, KybShape, KybStatus
<1>7. KybSound(Idle)' /\ KybDecided(Idle)'
  BY DEF KybSound, KybDecided, Idle
<1>8. ASSUME Serial, NEW x \in Organizations PROVE VerdictBudget(x)'
  <2>1. VerdictBudget(x)
    BY <1>8 DEF KybInv
  <2>2. CASE x # o
    BY <1>1, <1>2, <1>5, <1>6, <2>1, <2>2, VerdictFrame
  <2>3. CASE x = o
    <3>1. KybStatus(o) \in {"pending", "in_review"}
      BY <1>1, <1>8 DEF KybInv, KybDecided
    <3>2. ledger[o].verified = 0 /\ Verdicts(o) < ledger[o].opened
          /\ ledger[o].opened <= 1 + ledger[o].rejected + faults
      BY <2>1, <2>3, <3>1 DEF VerdictBudget
    <3>3. faults' = faults /\ faults \in Nat
      BY <1>2 DEF KybInv, CallsShape
    <3>4. Verdicts(o)' = ledger'[o].verified + ledger'[o].rejected
          /\ Verdicts(o) = ledger[o].verified + ledger[o].rejected
      BY DEF Verdicts
    <3> QED  BY <1>4, <1>5, <1>6, <2>3, <3>2, <3>3, <3>4 DEF VerdictBudget
  <2> QED  BY <2>2, <2>3
<1> QED  BY <1>2, <1>6, <1>7, <1>8, KybMoves

\* Giving a role: the handler touches no row of KYB.
LEMMA RolesKeepKyb ==
  ASSUME KybInv, UNCHANGED identityVars, NEW r \in Reqs,
         \/ \E u \in load.users, a \in ActiveAddresses : SetUserRoleRead(r, u, a)
         \/ SetUserRoleWrite(r)
  PROVE  KybInv'
<1>1. UNCHANGED kybVars
  BY DEF identityVars
<1>2. ASSUME NEW u \in load.users, NEW a \in ActiveAddresses, SetUserRoleRead(r, u, a)
      PROVE  KybInv'
  <2>1. PICK role \in {"user", "admin"} :
          Begin(r, [pc |-> "role_write", wallet |-> a, role |-> role])
    BY <1>2 DEF SetUserRoleRead
  <2>2. PICK c : c = [pc |-> "role_write", wallet |-> a, role |-> role]
    OBVIOUS
  <2>3. KybSound(c) /\ KybDecided(c)
    BY <2>2 DEF KybSound, KybDecided
  <2> QED  BY <1>1, <2>1, <2>2, <2>3, KybBegins
<1>3. CASE SetUserRoleWrite(r)
  <2>1. Moves(r, Idle) /\ r \in load.slots /\ call[r].pc # "kyb_write"
    BY <1>3, AwaitMoves, BusyHasSlot DEF KybInv, SetUserRoleWrite, At, Done
  <2>2. KybSound(Idle) /\ KybDecided(Idle)
    BY DEF KybSound, KybDecided, Idle
  <2> QED  BY <1>1, <2>1, <2>2, KybReads
<1> QED  BY <1>2, <1>3

LEMMA KybDiesKeeps == ASSUME KybInv, NEW r \in Reqs, KybDies(r) PROVE KybInv'
<1>1. Moves(r, Idle) /\ r \in load.slots /\ faults' > faults /\ UNCHANGED kybVars
  BY DiesMoves DEF KybInv, KybDies, CallsShape, identityVars
<1>2. KybSound(Idle) /\ KybDecided(Idle)
  BY DEF KybSound, KybDecided, Idle
<1> QED  BY <1>1, <1>2, KybReads

LEMMA KybStep == ASSUME KybInv, KybNext PROVE KybInv'
  BY KybCreateReadKeeps, KybReviewReadKeeps, KybOpenKeeps, KybWriteKeeps, KybReviewWriteKeeps,
     KybDiesKeeps, RolesKeepKyb DEF KybNext

LEMMA KybInitInv == CallsInit /\ IdentityInit => KybInv
<1> SUFFICES ASSUME CallsInit, IdentityInit PROVE KybInv
  OBVIOUS
<1>1. CallsShape /\ faults = 0
  BY CallsShapeInit DEF CallsInit
<1>2. \A r \in Reqs : KybSound(call[r]) /\ KybDecided(call[r])
  BY DEF CallsInit, KybSound, KybDecided, Idle
<1>3. KybShape
  BY DEF IdentityInit, KybShape
<1>4. ASSUME NEW o \in Organizations PROVE VerdictBudget(o)
  <2>1. KybStatus(o) = "none" /\ ledger[o] = [opened |-> 0, verified |-> 0, rejected |-> 0]
    BY DEF IdentityInit, KybStatus
  <2> QED  BY <1>1, <2>1 DEF VerdictBudget, Verdicts
<1> QED  BY <1>1, <1>2, <1>3, <1>4 DEF KybInv

KybServed ==
    IF Serves("kyb") THEN KybInv
    ELSE /\ faults \in Nat
         /\ ledger = [o \in Organizations |-> [opened |-> 0, verified |-> 0, rejected |-> 0]]

LEMMA KybServedInit == ServicesInit => KybServed
  BY KybInitInv DEF ServicesInit, KybServed, IdentityInit, CallsInit

LEMMA KybServedStep == KybServed /\ [ServicesNext]_serviceVars => KybServed'
<1> SUFFICES ASSUME KybServed, [ServicesNext]_serviceVars PROVE KybServed'
  OBVIOUS
<1>1. Proceeds
  BY LoadKept
<1>2. CASE ~Serves("kyb")
  <2>1. UNCHANGED ledger
    BY <1>2 DEF ServicesNext, serviceVars, tableVars, identityVars, kybVars, KycNext, OpenDirectly,
         Says, Webhook, Redeploy, KycCreateRead, KycOpen, KycWrite, KycDies
  <2> QED  BY <1>1, <1>2, <2>1 DEF KybServed, Serves, Proceeds
<1>3. CASE Serves("kyb") /\ KybNext
  BY <1>1, <1>3, KybStep DEF KybServed, Serves, Proceeds
<1>4. CASE Serves("kyb") /\ UNCHANGED serviceVars
  <2>1. UNCHANGED <<call, load, served, faults, kyb, ledger>> /\ KybInv
    BY <1>4 DEF serviceVars, tableVars, KybServed, callVars, identityVars, kybVars
  <2>2. CallsShape' /\ KybShape' /\ \A r \in Reqs : KybSound(call[r])'
    BY <2>1 DEF KybInv, CallsShape, KybShape, KybSound
  <2>3. \A r \in Reqs : KybDecided(call[r]) => KybDecided(call[r])'
    BY <2>1 DEF KybDecided, KybStatus, Verdicts
  <2>4. \A o \in Organizations : VerdictBudget(o) => VerdictBudget(o)'
    BY <2>1 DEF VerdictBudget, KybStatus, Verdicts
  <2>5. KybInv'
    BY <2>1, <2>2, <2>3, <2>4 DEF KybInv, Serial
  <2> QED  BY <1>1, <1>4, <2>5 DEF KybServed, Serves, Proceeds
<1> QED  BY <1>2, <1>3, <1>4 DEF ServicesNext, Serves

\* KYB: when requests do not overlap each session gets at most one verdict,
\* and a session is opened again only after a rejection or a fault.
THEOREM VerdictsAreFinal == ServicesSpec => []OneVerdictPerSession
<1>1. KybServed => OneVerdictPerSession
  <2> SUFFICES ASSUME KybServed, Serial, NEW o \in Organizations
               PROVE  /\ ledger[o].verified + ledger[o].rejected <= ledger[o].opened
                      /\ ledger[o].opened <= 1 + ledger[o].rejected + faults
                      /\ ledger[o].verified <= 1
    BY DEF OneVerdictPerSession
  <2>1. CASE Serves("kyb")
    BY <2>1 DEF KybServed, KybInv, VerdictBudget, Verdicts
  <2>2. CASE ~Serves("kyb")
    BY <2>2 DEF KybServed
  <2> QED  BY <2>1, <2>2
<1>2. ServicesSpec => []KybServed
  BY KybServedInit, KybServedStep, PTL DEF ServicesSpec
<1> QED  BY <1>1, <1>2, PTL

(***************************************************************************)
(* Files and conversation                                                  *)
(***************************************************************************)

Uploads == {"object", "file_row", "remove_object"}

UploadSound(c) ==
    c.pc \in Uploads =>
        /\ c.file \in 1..uploads
        /\ Stores(c.file) => c.pc = "remove_object" /\ ~files[c.file].told
        /\ c.pc = "file_row" => c.file \in bucket
        /\ c.pc # "remove_object" => c.agreement \in Agreements \cup {Nothing}
        /\ c.pc # "remove_object" =>
             c = [pc |-> c.pc, file |-> c.file, agreement |-> c.agreement]

UploadsApart ==
    \A r, s \in Reqs :
        call[r].pc \in Uploads /\ call[s].pc \in Uploads /\ call[r].file = call[s].file => r = s

\* Objects without a row that no upload is going to see to, and the rows no
\* upload has told of, whose objects may be gone.
Orphans ==
    {f \in FileIds : IF Stores(f) THEN ~files[f].told
                     ELSE /\ f \in bucket
                          /\ \A r \in Reqs : call[r].pc \in Uploads => call[r].file # f}

FilesInv ==
    /\ uploads \in 0..MaxFiles
    /\ bucket \subseteq 1..uploads
    /\ files \in [FileIds -> File \cup {Nothing}]
    /\ \A f \in FileIds : Stores(f) => f <= uploads /\ (files[f].told => f \in bucket)
    /\ \A r \in Reqs : UploadSound(call[r])
    /\ UploadsApart
    /\ Cardinality(Orphans) <= faults

Belong(ids, g) ==
    \A f \in ids : /\ f \in FileIds /\ Stores(f) /\ files[f].told
                   /\ files[f].agreement \in {Nothing, g}

MessageSound(c) ==
    /\ c.pc = "message_row" =>
         /\ Belong(c.files, c.agreement)
         /\ c.agreement \in Agreements /\ c.user \in Users /\ c.twice \in BOOLEAN
    /\ c.pc = "attach" => c.message \in MessageIds /\ messages[c.message] # Nothing

\* Messages without their attachments that no handler is going to attach.
Missing ==
    {m \in MessageIds : /\ messages[m] # Nothing
                        /\ messages[m].attached # messages[m].sent
                        /\ ~messages[m].twice
                        /\ \A r \in Reqs : call[r].pc = "attach" => call[r].message # m}

MessagesInv ==
    /\ messages \in [MessageIds -> Message \cup {Nothing}]
    /\ \A m \in MessageIds : messages[m] # Nothing =>
         /\ Belong(messages[m].sent, messages[m].agreement)
         /\ messages[m].attached \subseteq messages[m].sent
    /\ \A r \in Reqs : MessageSound(call[r])
    /\ Cardinality(Missing) <= faults

RoomInv == CallsShape /\ FilesInv /\ MessagesInv

LEMMA OrphansFinite == ASSUME FilesInv PROVE IsFiniteSet(Orphans) /\ Cardinality(Orphans) \in Nat
<1>1. IsFiniteSet(FileIds)
  BY FS_Interval, RoomAssumption DEF FileIds
<1>2. Orphans \subseteq FileIds
  BY DEF Orphans
<1> QED  BY <1>1, <1>2, FS_Subset, FS_CardinalityType

\* What a step of a handler may do to the objects and the rows about them.
UploadStep(r, c) ==
    /\ Moves(r, c) /\ r \in load.slots
    /\ uploads' \in 0..MaxFiles /\ uploads' >= uploads
    /\ bucket' \subseteq 1..uploads'
    /\ files' \in [FileIds -> File \cup {Nothing}]
    /\ \A f \in FileIds :
         files'[f] # Nothing => f <= uploads' /\ (files'[f].told => f \in bucket')
    /\ \A f \in 1..uploads :
         \/ call[r].pc \in Uploads /\ f = call[r].file
         \/ files'[f] = files[f] /\ (f \in bucket => f \in bucket')
    /\ c.pc \in Uploads => \/ call[r].pc \in Uploads /\ c.file = call[r].file
                           \/ c.file > uploads

LEMMA UploadKeeps ==
  ASSUME RoomInv, NEW r \in Reqs, NEW c, UploadStep(r, c), UploadSound(c)',
         \/ Orphans' \subseteq Orphans
         \/ faults' > faults /\ \E f : Orphans' \subseteq Orphans \cup {f}
  PROVE  CallsShape' /\ FilesInv'
<1>1. CallsShape' /\ call'[r] = c /\ \A s \in Reqs \ {r} : call'[s] = call[s]
  BY CallsShapeMoves DEF RoomInv, UploadStep
<1>2. ASSUME NEW s \in Reqs PROVE UploadSound(call[s])'
  <2>1. CASE s = r
    BY <1>1, <2>1 DEF UploadSound
  <2>2. CASE s # r
    <3>1. call'[s] = call[s] /\ UploadSound(call[s])
      BY <1>1, <2>2 DEF RoomInv, FilesInv
    <3>2. call[s].pc \in Uploads =>
            ~(call[r].pc \in Uploads /\ call[s].file = call[r].file)
      BY <2>2 DEF RoomInv, FilesInv, UploadsApart
    <3>3. uploads \in Nat /\ uploads' \in Nat
      BY DEF UploadStep, RoomInv, FilesInv
    <3>4. call[s].pc \in Uploads => call[s].file \in 1..uploads'
      BY <3>1, <3>3 DEF UploadSound, UploadStep
    <3>5. call[s].pc \in Uploads =>
            /\ files'[call[s].file] = files[call[s].file]
            /\ call[s].file \in bucket => call[s].file \in bucket'
      BY <3>1, <3>2 DEF UploadSound, UploadStep
    <3> QED  BY <3>1, <3>4, <3>5 DEF UploadSound, Stores
  <2> QED  BY <2>1, <2>2
<1>3. UploadsApart'
  <2>2. uploads \in Nat
    BY DEF RoomInv, FilesInv
  <2>1. \A s \in Reqs : call[s].pc \in Uploads => call[s].file <= uploads /\ call[s].file \in Nat
    <3>1. \A s \in Reqs : call[s].pc \in Uploads => call[s].file \in 1..uploads
      BY DEF RoomInv, FilesInv, UploadSound
    <3> QED  BY <2>2, <3>1
  <2>3. ASSUME NEW s \in Reqs \ {r}, c.pc \in Uploads, call[s].pc \in Uploads
        PROVE  c.file # call[s].file
    <3>1. CASE c.file > uploads
      BY <2>1, <2>2, <2>3, <3>1
    <3>2. CASE call[r].pc \in Uploads /\ c.file = call[r].file
      BY <2>3, <3>2 DEF RoomInv, FilesInv, UploadsApart
    <3> QED  BY <2>3, <3>1, <3>2 DEF UploadStep
  <2> QED  BY <1>1, <2>3 DEF RoomInv, FilesInv, UploadsApart
<1>4. Cardinality(Orphans') <= faults'
  <2>1. IsFiniteSet(Orphans) /\ Cardinality(Orphans) \in Nat /\ Cardinality(Orphans) <= faults
    BY OrphansFinite DEF RoomInv, FilesInv
  <2>2. faults \in Nat /\ faults' \in Nat /\ faults' >= faults
    BY DEF RoomInv, CallsShape, UploadStep, Moves
  <2>3. CASE Orphans' \subseteq Orphans
    <3>1. IsFiniteSet(Orphans') /\ Cardinality(Orphans') <= Cardinality(Orphans)
      BY <2>1, <2>3, FS_Subset
    <3>2. Cardinality(Orphans') \in Nat
      BY <3>1, FS_CardinalityType
    <3> QED  BY <2>1, <2>2, <3>1, <3>2
  <2>4. ASSUME faults' > faults, NEW f, Orphans' \subseteq Orphans \cup {f}
        PROVE  Cardinality(Orphans') <= faults'
    <3>1. IsFiniteSet(Orphans') /\ Cardinality(Orphans') <= 1 + Cardinality(Orphans)
      BY <2>1, <2>4, GrownByOne
    <3>2. Cardinality(Orphans') \in Nat
      BY <3>1, FS_CardinalityType
    <3> QED  BY <2>1, <2>2, <2>4, <3>1, <3>2
  <2> QED  BY <2>3, <2>4
<1> QED  BY <1>1, <1>2, <1>3, <1>4 DEF UploadStep, FilesInv, Stores

LEMMA MissingFinite ==
  ASSUME MessagesInv PROVE IsFiniteSet(Missing) /\ Cardinality(Missing) \in Nat
<1>1. IsFiniteSet(MessageIds)
  BY FS_Interval, RoomAssumption DEF MessageIds
<1>2. Missing \subseteq MessageIds
  BY DEF Missing
<1> QED  BY <1>1, <1>2, FS_Subset, FS_CardinalityType

\* What a step of a handler may do to the messages.
MessageStep(r, c) ==
    /\ Moves(r, c) /\ r \in load.slots
    /\ messages' \in [MessageIds -> Message \cup {Nothing}]
    /\ \A f \in FileIds : Stores(f) => files'[f] = files[f]
    /\ \A m \in MessageIds : messages[m] # Nothing => messages'[m] # Nothing

LEMMA MessagesKeep ==
  ASSUME RoomInv, NEW r \in Reqs, NEW c, MessageStep(r, c), MessageSound(c)',
         \A m \in MessageIds : messages'[m] # Nothing =>
           /\ Belong(messages'[m].sent, messages'[m].agreement)
           /\ messages'[m].attached \subseteq messages'[m].sent,
         \/ Missing' \subseteq Missing
         \/ faults' > faults /\ \E m : Missing' \subseteq Missing \cup {m}
  PROVE  MessagesInv'
<1>1. CallsShape' /\ call'[r] = c /\ \A s \in Reqs \ {r} : call'[s] = call[s]
  BY CallsShapeMoves DEF RoomInv, MessageStep
<1>2. \A ids, g : Belong(ids, g) => Belong(ids, g)'
  BY DEF Belong, MessageStep, Stores
<1>3. ASSUME NEW s \in Reqs PROVE MessageSound(call[s])'
  <2>1. CASE s = r
    BY <1>1, <2>1 DEF MessageSound
  <2>2. CASE s # r
    <3>1. PICK d : d = call[s] /\ d = call'[s]
      BY <1>1, <2>2
    <3>2. MessageSound(d)
      BY <3>1 DEF RoomInv, MessagesInv
    <3>3. d.pc = "message_row" => Belong(d.files, d.agreement)'
      BY <1>2, <3>2 DEF MessageSound
    <3> QED  BY <3>1, <3>2, <3>3 DEF MessageSound, MessageStep, Belong
  <2> QED  BY <2>1, <2>2
<1>4. \A m \in MessageIds : messages'[m] # Nothing =>
        /\ Belong(messages[m].sent, messages[m].agreement)'
        /\ messages'[m].attached \subseteq messages'[m].sent
  BY ZenonT(60), <1>2 DEF Belong
<1>5. Cardinality(Missing') <= faults'
  <2>1. IsFiniteSet(Missing) /\ Cardinality(Missing) \in Nat /\ Cardinality(Missing) <= faults
    BY MissingFinite DEF RoomInv, MessagesInv
  <2>2. faults \in Nat /\ faults' \in Nat /\ faults' >= faults
    BY DEF RoomInv, CallsShape, MessageStep, Moves
  <2>3. CASE Missing' \subseteq Missing
    <3>1. IsFiniteSet(Missing') /\ Cardinality(Missing') <= Cardinality(Missing)
      BY <2>1, <2>3, FS_Subset
    <3>2. Cardinality(Missing') \in Nat
      BY <3>1, FS_CardinalityType
    <3> QED  BY <2>1, <2>2, <3>1, <3>2
  <2>4. ASSUME faults' > faults, NEW m, Missing' \subseteq Missing \cup {m}
        PROVE  Cardinality(Missing') <= faults'
    <3>1. IsFiniteSet(Missing') /\ Cardinality(Missing') <= 1 + Cardinality(Missing)
      BY <2>1, <2>4, GrownByOne
    <3>2. Cardinality(Missing') \in Nat
      BY <3>1, FS_CardinalityType
    <3> QED  BY <2>1, <2>2, <2>4, <3>1, <3>2
  <2> QED  BY <2>3, <2>4
<1> QED  BY <1>3, <1>4, <1>5 DEF MessageStep, MessagesInv

\* A step that is about files.
LEMMA FilesOnly ==
  ASSUME RoomInv, NEW r \in Reqs, NEW c, UploadStep(r, c), UploadSound(c)',
         \/ Orphans' \subseteq Orphans
         \/ faults' > faults /\ \E f : Orphans' \subseteq Orphans \cup {f},
         UNCHANGED messages, \A f \in FileIds : Stores(f) => files'[f] = files[f],
         c.pc \notin {"message_row", "attach"}, call[r].pc # "attach"
  PROVE  RoomInv'
<1>1. CallsShape' /\ FilesInv'
  BY UploadKeeps
<1>2. call'[r] = c /\ \A s \in Reqs \ {r} : call'[s] = call[s]
  BY CallsShapeMoves DEF RoomInv, UploadStep
<1>3. MessageStep(r, c)
  BY DEF UploadStep, MessageStep, RoomInv, MessagesInv
<1>4. MessageSound(c)'
  BY DEF MessageSound
<1>5. Missing' \subseteq Missing
  BY <1>2 DEF Missing
<1>6. \A m \in MessageIds : messages'[m] # Nothing =>
        /\ Belong(messages'[m].sent, messages'[m].agreement)
        /\ messages'[m].attached \subseteq messages'[m].sent
  BY DEF RoomInv, MessagesInv
<1>7. MessagesInv'
  BY <1>3, <1>4, <1>5, <1>6, MessagesKeep
<1> QED  BY <1>1, <1>7 DEF RoomInv

LEMMA UploadStays ==
  ASSUME RoomInv, NEW r \in Reqs, NEW c, Moves(r, c), r \in load.slots,
         UNCHANGED <<bucket, files, uploads>>,
         c.pc \in Uploads => call[r].pc \in Uploads /\ c.file = call[r].file
  PROVE  UploadStep(r, c) /\ \A f \in FileIds : Stores(f) => files'[f] = files[f]
  BY DEF RoomInv, FilesInv, UploadStep, Stores

\* A step that is about messages.
LEMMA MessagesOnly ==
  ASSUME RoomInv, NEW r \in Reqs, NEW c, MessageStep(r, c), MessageSound(c)',
         \A m \in MessageIds : messages'[m] # Nothing =>
           /\ Belong(messages'[m].sent, messages'[m].agreement)
           /\ messages'[m].attached \subseteq messages'[m].sent,
         Missing' \subseteq Missing, UNCHANGED <<bucket, files, uploads>>,
         c.pc \notin Uploads, call[r].pc \notin Uploads
  PROVE  RoomInv'
<1>1. UploadStep(r, c)
  BY UploadStays DEF MessageStep
<1>2. call'[r] = c /\ \A s \in Reqs \ {r} : call'[s] = call[s]
  BY CallsShapeMoves DEF RoomInv, UploadStep, MessageStep
<1>3. UploadSound(c)'
  BY DEF UploadSound
<1>4. Orphans' \subseteq Orphans
  BY <1>2 DEF Orphans, Stores
<1>5. CallsShape' /\ FilesInv'
  BY <1>1, <1>3, <1>4, UploadKeeps
<1>6. MessagesInv'
  BY MessagesKeep
<1> QED  BY <1>5, <1>6 DEF RoomInv

\* A handler that reads, gives up or dies.
LEMMA RoomReads ==
  ASSUME RoomInv, NEW r \in Reqs, NEW c, Moves(r, c), r \in load.slots, UNCHANGED roomVars,
         UploadSound(c), MessageSound(c),
         c.pc \in Uploads => call[r].pc \in Uploads /\ c.file = call[r].file,
         \/ faults' > faults
         \/ /\ call[r].pc \in Uploads => c.pc \in Uploads /\ c.file = call[r].file
            /\ call[r].pc # "attach"
  PROVE  RoomInv'
<1>1. UNCHANGED <<bucket, files, uploads, messages>>
  BY DEF roomVars
<1>2. call'[r] = c /\ \A s \in Reqs \ {r} : call'[s] = call[s]
  BY CallsShapeMoves DEF RoomInv
<1>3. UploadStep(r, c)
  BY <1>1, UploadStays
<1>4. MessageStep(r, c)
  BY <1>1 DEF MessageStep, RoomInv, MessagesInv
<1>5. UploadSound(c)' /\ MessageSound(c)'
  BY <1>1 DEF UploadSound, MessageSound, Belong, Stores
<1>6. /\ Orphans' \subseteq Orphans \cup {call[r].file}
      /\ Missing' \subseteq Missing \cup {call[r].message}
  BY <1>1, <1>2 DEF Orphans, Missing, Stores
<1>7. \/ Orphans' \subseteq Orphans
      \/ faults' > faults /\ \E f : Orphans' \subseteq Orphans \cup {f}
  <2>1. CASE call[r].pc \in Uploads => c.pc \in Uploads /\ c.file = call[r].file
    BY <1>1, <1>2, <2>1 DEF Orphans, Stores
  <2> QED  BY <1>6, <2>1
<1>8. \/ Missing' \subseteq Missing
      \/ faults' > faults /\ \E m : Missing' \subseteq Missing \cup {m}
  <2>1. CASE call[r].pc # "attach"
    BY <1>1, <1>2, <2>1 DEF Missing
  <2> QED  BY <1>6, <2>1
<1>9. \A m \in MessageIds : messages'[m] # Nothing =>
        /\ Belong(messages'[m].sent, messages'[m].agreement)
        /\ messages'[m].attached \subseteq messages'[m].sent
  BY <1>1 DEF RoomInv, MessagesInv
<1>10. CallsShape' /\ FilesInv'
  BY <1>3, <1>5, <1>7, UploadKeeps
<1>11. MessagesInv'
  BY <1>4, <1>5, <1>8, <1>9, MessagesKeep
<1> QED  BY <1>10, <1>11 DEF RoomInv

LEMMA UploadBegins ==
  ASSUME RoomInv, NEW r \in Reqs, NEW u, NEW g \in Agreements \cup {Nothing}, Upload(r, u, g)
  PROVE  RoomInv'
<1>1. PICK c : c = [pc |-> "object", file |-> uploads + 1, agreement |-> g]
  OBVIOUS
<1>2. Begin(r, c) /\ UNCHANGED <<bucket, files, messages>>
      /\ uploads < MaxFiles /\ uploads' = uploads + 1
  BY <1>1 DEF Upload
<1>3. Moves(r, c) /\ r \in load.slots /\ call[r].pc = "idle"
  BY <1>2, BeginMoves DEF RoomInv, Idle
<1>4. uploads \in Nat /\ uploads' \in 0..MaxFiles /\ uploads + 1 \in FileIds
      /\ 1..uploads \subseteq 1..uploads'
  BY <1>2, RoomAssumption DEF RoomInv, FilesInv, FileIds
<1>5. uploads + 1 \notin bucket /\ ~Stores(uploads + 1)
  <2>1. PICK n \in FileIds : n = uploads + 1
    BY <1>4
  <2>2. n \notin 1..uploads /\ ~(n <= uploads)
    BY <1>4, <2>1
  <2>3. n \notin bucket
    BY <2>2 DEF RoomInv, FilesInv
  <2>4. ~Stores(n)
    <3>1. \A f \in FileIds : Stores(f) => f <= uploads
      BY Zenon DEF RoomInv, FilesInv
    <3> QED  BY Zenon, <2>2, <3>1
  <2> QED  BY <2>1, <2>3, <2>4
<1>6. UploadStep(r, c)
  <2>1. \A f \in FileIds : files[f] # Nothing => f <= uploads /\ (files[f].told => f \in bucket)
    BY Zenon DEF RoomInv, FilesInv, Stores
  <2>2. \A f \in FileIds :
          files'[f] # Nothing => f <= uploads' /\ (files'[f].told => f \in bucket')
    <3>1. \A f \in FileIds : f <= uploads => f <= uploads'
      BY <1>2, <1>4 DEF FileIds
    <3> QED  BY Zenon, <1>2, <2>1, <3>1
  <2>3. /\ uploads' >= uploads /\ bucket' \subseteq 1..uploads'
        /\ files' \in [FileIds -> File \cup {Nothing}]
    BY <1>2, <1>4 DEF RoomInv, FilesInv
  <2>4. c.file > uploads
    BY <1>1, <1>4
  <2> QED  BY ONLY <1>2, <1>3, <1>4, <2>2, <2>3, <2>4 DEF UploadStep
<1>7. UploadSound(c)'
  BY <1>1, <1>2, <1>4, <1>5 DEF UploadSound, Stores
<1>8. call'[r] = c /\ \A s \in Reqs \ {r} : call'[s] = call[s]
  BY <1>3, CallsShapeMoves DEF RoomInv
<1>9. Orphans' \subseteq Orphans
  BY <1>2, <1>3, <1>8 DEF Orphans, Stores, Uploads
<1> QED  BY <1>1, <1>2, <1>3, <1>6, <1>7, <1>9, FilesOnly

LEMMA StoreObjectKeeps == ASSUME RoomInv, NEW r \in Reqs, StoreObject(r) PROVE RoomInv'
<1>1. PICK f \in 1..uploads, g \in Agreements \cup {Nothing} :
        call[r] = [pc |-> "object", file |-> f, agreement |-> g] /\ ~Stores(f)
  BY DEF StoreObject, At, RoomInv, FilesInv, UploadSound, Uploads
<1>2. PICK c : c = [pc |-> "file_row", file |-> f, agreement |-> g]
  OBVIOUS
<1>3. Await(r, c) /\ bucket' = bucket \cup {f} /\ UNCHANGED <<files, uploads, messages>>
  <2>1. [call[r] EXCEPT !.pc = "file_row"] = c /\ call[r].file = f
    BY <1>1, <1>2
  <2> QED  BY <2>1 DEF StoreObject
<1>4. Moves(r, c) /\ r \in load.slots
  BY <1>1, <1>3, AwaitMoves, BusyHasSlot DEF RoomInv
<1>5. UploadStep(r, c)
  <2>1. \A x \in FileIds :
          files'[x] # Nothing => x <= uploads' /\ (files'[x].told => x \in bucket')
    BY <1>3 DEF RoomInv, FilesInv, Stores
  <2>2. uploads' \in 0..MaxFiles /\ uploads' >= uploads /\ bucket' \subseteq 1..uploads'
        /\ files' \in [FileIds -> File \cup {Nothing}]
    BY <1>3 DEF RoomInv, FilesInv
  <2>3. call[r].pc \in Uploads /\ c.file = call[r].file
    BY <1>1, <1>2 DEF Uploads
  <2> QED  BY ONLY <1>3, <1>4, <2>1, <2>2, <2>3 DEF UploadStep
<1>6. UploadSound(c)'
  BY <1>1, <1>2, <1>3 DEF UploadSound, Stores
<1>7. call'[r] = c /\ \A s \in Reqs \ {r} : call'[s] = call[s]
  BY <1>4, CallsShapeMoves DEF RoomInv
<1>8. Orphans' \subseteq Orphans
  BY <1>1, <1>2, <1>3, <1>7 DEF Orphans, Stores, Uploads
<1> QED  BY <1>1, <1>2, <1>3, <1>5, <1>6, <1>8, FilesOnly

\* A row for an object that has none yet.
LEMMA RowKeeps ==
  ASSUME RoomInv, NEW r \in Reqs, NEW c, NEW row \in File, Moves(r, c), r \in load.slots,
         call[r].pc = "file_row", files' = [files EXCEPT ![call[r].file] = row],
         UNCHANGED <<bucket, uploads, messages>>,
         \/ c = Idle /\ row.told
         \/ /\ c = [pc |-> "remove_object", file |-> call[r].file]
            /\ ~row.told /\ faults' > faults
  PROVE  RoomInv'
<1>1. PICK f \in 1..uploads : call[r].file = f /\ ~Stores(f) /\ f \in bucket
  BY DEF RoomInv, FilesInv, UploadSound, Uploads
<1>4. f \in FileIds /\ row # Nothing /\ 1..uploads \subseteq FileIds
  BY RoomAssumption DEF RoomInv, FilesInv, FileIds
<1>5. /\ files'[f] = row /\ \A x \in FileIds \ {f} : files'[x] = files[x]
      /\ files' \in [FileIds -> File \cup {Nothing}]
  BY <1>1, <1>4 DEF RoomInv, FilesInv
<1>6. UploadStep(r, c)
  <2>1. ASSUME NEW x \in FileIds, files'[x] # Nothing
        PROVE  x <= uploads' /\ (files'[x].told => x \in bucket')
    <3>1. CASE x = f
      BY <1>1, <3>1
    <3>2. CASE x # f
      BY <1>5, <2>1, <3>2 DEF RoomInv, FilesInv, Stores
    <3> QED  BY <3>1, <3>2
  <2>2. ASSUME NEW x \in 1..uploads
        PROVE  \/ call[r].pc \in Uploads /\ x = call[r].file
               \/ files'[x] = files[x] /\ (x \in bucket => x \in bucket')
    <3>1. CASE x = f
      BY <1>1, <3>1 DEF Uploads
    <3>2. CASE x # f
      BY <1>4, <1>5, <3>2
    <3> QED  BY <3>1, <3>2
  <2>3. uploads' \in 0..MaxFiles /\ uploads' >= uploads /\ bucket' \subseteq 1..uploads'
    BY DEF RoomInv, FilesInv
  <2>4. c.pc \in Uploads => call[r].pc \in Uploads /\ c.file = call[r].file
    BY DEF Idle, Uploads
  <2>5. /\ \A x \in FileIds :
             files'[x] # Nothing => x <= uploads' /\ (files'[x].told => x \in bucket')
        /\ \A x \in 1..uploads :
             \/ call[r].pc \in Uploads /\ x = call[r].file
             \/ files'[x] = files[x] /\ (x \in bucket => x \in bucket')
    BY <2>1, <2>2
  <2> QED  BY ONLY <1>5, <2>3, <2>4, <2>5, Moves(r, c), r \in load.slots DEF UploadStep
<1>7. UploadSound(c)'
  <2>1. CASE c = Idle
    BY <2>1 DEF UploadSound, Idle, Uploads
  <2>2. CASE c = [pc |-> "remove_object", file |-> f] /\ ~row.told
    BY <1>5, <2>2 DEF UploadSound, Stores
  <2> QED  BY <1>1, <2>1, <2>2
<1>8. call'[r] = c /\ \A s \in Reqs \ {r} : call'[s] = call[s]
  BY CallsShapeMoves DEF RoomInv
<1>9. ASSUME NEW x \in Orphans', x # f PROVE x \in Orphans
  <2>1. x \in FileIds /\ files'[x] = files[x]
    BY <1>5, <1>9 DEF Orphans
  <2>2. \A s \in Reqs : call[s].pc \in Uploads /\ call[s].file = x => call'[s] = call[s]
    BY <1>1, <1>8, <1>9
  <2> QED  BY <1>9, <2>1, <2>2 DEF Orphans, Stores
<1>10. row.told => f \notin Orphans'
  BY <1>4, <1>5 DEF Orphans, Stores
<1>11. \/ Orphans' \subseteq Orphans
       \/ faults' > faults /\ \E x : Orphans' \subseteq Orphans \cup {x}
  <2>1. CASE row.told
    BY <1>9, <1>10, <2>1
  <2>2. CASE ~row.told
    <3>1. Orphans' \subseteq Orphans \cup {f}
      BY <1>9
    <3> QED  BY <2>2, <3>1
  <2> QED  BY <2>1, <2>2
<1>12. \A x \in FileIds : Stores(x) => files'[x] = files[x]
  BY <1>1, <1>5
<1>13. c.pc \notin {"message_row", "attach"}
  BY DEF Idle
<1> QED  BY <1>6, <1>7, <1>11, <1>12, <1>13, FilesOnly

LEMMA InsertFileKeeps == ASSUME RoomInv, NEW r \in Reqs, InsertFile(r) PROVE RoomInv'
<1>1. call[r].pc = "file_row" /\ call[r].agreement \in Agreements \cup {Nothing}
  BY DEF InsertFile, At, RoomInv, FilesInv, UploadSound, Uploads
<1>2. PICK row \in File : row.told /\ files' = [files EXCEPT ![call[r].file] = row]
  BY <1>1 DEF InsertFile, File
<1>3. Moves(r, Idle) /\ r \in load.slots /\ UNCHANGED <<bucket, uploads, messages>>
  BY <1>1, AwaitMoves, BusyHasSlot DEF RoomInv, InsertFile, Done
<1> QED  BY <1>1, <1>2, <1>3, RowKeeps

LEMMA InsertFileAnswerLostKeeps ==
  ASSUME RoomInv, NEW r \in Reqs, InsertFileAnswerLost(r) PROVE RoomInv'
<1>1. call[r].pc = "file_row" /\ call[r].agreement \in Agreements \cup {Nothing}
  BY DEF InsertFileAnswerLost, At, RoomInv, FilesInv, UploadSound, Uploads
<1>2. PICK row \in File : ~row.told /\ files' = [files EXCEPT ![call[r].file] = row]
  BY <1>1 DEF InsertFileAnswerLost, File
<1>3. PICK c : c = [pc |-> "remove_object", file |-> call[r].file]
  OBVIOUS
<1>4. /\ Moves(r, c) /\ r \in load.slots /\ faults' > faults
      /\ UNCHANGED <<bucket, uploads, messages>>
  BY <1>1, <1>3, BusyHasSlot DEF RoomInv, CallsShape, InsertFileAnswerLost, Moves
<1> QED  BY <1>1, <1>2, <1>3, <1>4, RowKeeps

LEMMA RemoveObjectKeeps == ASSUME RoomInv, NEW r \in Reqs, RemoveObject(r) PROVE RoomInv'
<1>1. PICK f \in 1..uploads :
        /\ call[r].pc = "remove_object" /\ call[r].file = f
        /\ Stores(f) => ~files[f].told
  BY DEF RemoveObject, At, RoomInv, FilesInv, UploadSound, Uploads
<1>2. /\ Moves(r, Idle) /\ r \in load.slots
      /\ bucket' = bucket \ {f} /\ UNCHANGED <<files, uploads, messages>>
  BY <1>1, AwaitMoves, BusyHasSlot DEF RoomInv, RemoveObject, Done
<1>3. UploadStep(r, Idle)
  BY <1>1, <1>2 DEF UploadStep, RoomInv, FilesInv, Uploads, Stores, Idle
<1>4. UploadSound(Idle)' /\ Idle.pc \notin {"message_row", "attach"}
  BY DEF UploadSound, Idle, Uploads
<1>5. call'[r] = Idle /\ \A s \in Reqs \ {r} : call'[s] = call[s]
  BY <1>2, CallsShapeMoves DEF RoomInv
<1>6. Orphans' \subseteq Orphans
  BY <1>1, <1>2, <1>5 DEF Orphans, Stores
<1> QED  BY <1>1, <1>2, <1>3, <1>4, <1>6, FilesOnly

LEMMA InsertFileRefusedKeeps ==
  ASSUME RoomInv, NEW r \in Reqs, InsertFileRefused(r) PROVE RoomInv'
<1>1. PICK f \in 1..uploads : call[r].pc = "file_row" /\ call[r].file = f /\ ~Stores(f)
  BY DEF InsertFileRefused, At, RoomInv, FilesInv, UploadSound, Uploads
<1>2. PICK c : c = [pc |-> "remove_object", file |-> f]
  OBVIOUS
<1>3. Moves(r, c) /\ r \in load.slots /\ UNCHANGED roomVars
  BY <1>1, <1>2, AwaitMoves, BusyHasSlot DEF RoomInv, InsertFileRefused
<1>4. UploadSound(c) /\ MessageSound(c)
  BY <1>1, <1>2 DEF UploadSound, MessageSound
<1> QED  BY <1>1, <1>2, <1>3, <1>4, RoomReads DEF Uploads

LEMMA SendMessageKeeps ==
  ASSUME RoomInv, NEW r \in Reqs, NEW u \in Users, NEW g \in Agreements,
         NEW ids \in SUBSET FileIds, NEW twice \in BOOLEAN, SendMessage(r, u, g, ids, twice)
  PROVE  RoomInv'
<1>1. PICK c : c = [pc |-> "message_row", user |-> u, agreement |-> g, files |-> ids,
                    twice |-> twice]
  OBVIOUS
<1>2. Begin(r, c) /\ UNCHANGED roomVars
  BY <1>1 DEF SendMessage
<1>3. Moves(r, c) /\ r \in load.slots /\ call[r].pc = "idle"
  BY <1>2, BeginMoves DEF RoomInv, Idle
<1>4. Belong(ids, g)
  BY DEF SendMessage, acceptable, readableFiles, Belong
<1>5. UploadSound(c) /\ MessageSound(c)
  BY <1>1, <1>4 DEF UploadSound, MessageSound, Uploads
<1> QED  BY <1>1, <1>2, <1>3, <1>5, RoomReads DEF Uploads

\* A row in a place that was free, or one that is filled in.
LEMMA InsertMessageKeeps ==
  ASSUME RoomInv, NEW r \in Reqs, InsertMessage(r) PROVE RoomInv'
<1>1. /\ call[r].pc = "message_row" /\ Belong(call[r].files, call[r].agreement)
      /\ call[r].agreement \in Agreements /\ call[r].user \in Users /\ call[r].twice \in BOOLEAN
  BY DEF InsertMessage, At, RoomInv, MessagesInv, MessageSound
<1>2. PICK row : row = [agreement |-> call[r].agreement, sender |-> call[r].user,
                        sent |-> call[r].files, twice |-> call[r].twice, attached |-> {}]
  OBVIOUS
<1>3. row \in Message /\ row # Nothing
  <2>1. call[r].files \in SUBSET FileIds
    BY <1>1 DEF Belong
  <2>2. row \in Message
    BY <1>1, <1>2, <2>1 DEF Message
  <2> QED  BY <2>2, RoomAssumption
<1>4. PICK m \in MessageIds :
        /\ messages[m] = Nothing
        /\ messages' = [messages EXCEPT ![m] = row]
        /\ IF call[r].files # {} THEN Await(r, [pc |-> "attach", message |-> m])
                                 ELSE Await(r, Idle)
  BY <1>2 DEF InsertMessage, Done
<1>5. /\ messages'[m] = row /\ \A x \in MessageIds \ {m} : messages'[x] = messages[x]
      /\ messages' \in [MessageIds -> Message \cup {Nothing}]
  BY <1>3, <1>4 DEF RoomInv, MessagesInv
<1>6. PICK c : c = IF call[r].files # {} THEN [pc |-> "attach", message |-> m] ELSE Idle
  OBVIOUS
<1>7. UNCHANGED <<bucket, files, uploads>> /\ Await(r, c)
  BY <1>4, <1>6 DEF InsertMessage
<1>8. Moves(r, c) /\ r \in load.slots
  BY <1>1, <1>7, AwaitMoves, BusyHasSlot DEF RoomInv
<1>9. MessageStep(r, c)
  <2>1. \A x \in MessageIds : messages[x] # Nothing => messages'[x] # Nothing
    BY <1>4, <1>5
  <2>2. \A f \in FileIds : Stores(f) => files'[f] = files[f]
    BY <1>7
  <2> QED  BY ONLY <1>5, <1>8, <2>1, <2>2 DEF MessageStep
<1>10. MessageSound(c)'
  BY <1>3, <1>5, <1>6 DEF MessageSound, Idle
<1>11. \A x \in MessageIds : messages'[x] # Nothing =>
         /\ Belong(messages'[x].sent, messages'[x].agreement)
         /\ messages'[x].attached \subseteq messages'[x].sent
  BY <1>1, <1>2, <1>5 DEF RoomInv, MessagesInv
<1>12. call'[r] = c /\ \A s \in Reqs \ {r} : call'[s] = call[s]
  BY <1>8, CallsShapeMoves DEF RoomInv
<1>13. Missing' \subseteq Missing
  <2>1. ASSUME NEW x \in Missing' PROVE x \in Missing
    <3>1. x # m
      <4>1. CASE call[r].files # {}
        <5>1. call'[r].pc = "attach" /\ call'[r].message = m
          BY <1>6, <1>12, <4>1
        <5> QED  BY <2>1, <5>1 DEF Missing
      <4>2. CASE call[r].files = {}
        <5>1. messages'[m].sent = {} /\ messages'[m].attached = {}
          BY <1>2, <1>5, <4>2
        <5> QED  BY <2>1, <5>1 DEF Missing
      <4> QED  BY <4>1, <4>2
    <3> QED  BY <1>1, <1>5, <1>12, <2>1, <3>1 DEF Missing
  <2> QED  BY <2>1
<1>14. c.pc \notin Uploads /\ call[r].pc \notin Uploads
  BY <1>1, <1>6 DEF Idle, Uploads
<1> QED  BY <1>7, <1>9, <1>10, <1>11, <1>13, <1>14, MessagesOnly

LEMMA AttachFilesKeeps ==
  ASSUME RoomInv, NEW r \in Reqs, AttachFiles(r) PROVE RoomInv'
<1>1. PICK m \in MessageIds : call[r].pc = "attach" /\ call[r].message = m /\ messages[m] # Nothing
  BY DEF AttachFiles, At, RoomInv, MessagesInv, MessageSound
<1>2. messages[m] \in Message
  BY <1>1 DEF RoomInv, MessagesInv
<1>3. PICK row : row = IF messages[m].twice THEN messages[m]
                       ELSE [messages[m] EXCEPT !.attached = messages[m].sent]
  OBVIOUS
<1>4. /\ row \in Message /\ row.sent = messages[m].sent /\ row.agreement = messages[m].agreement
      /\ row.twice = messages[m].twice /\ row.attached \subseteq row.sent
      /\ ~row.twice => row.attached = row.sent
  <2>1. messages[m].attached \subseteq messages[m].sent
    BY <1>1 DEF RoomInv, MessagesInv
  <2> QED  BY <1>2, <1>3, <2>1 DEF Message
<1>5. row # Nothing
  BY <1>4, RoomAssumption
<1>6. messages' = [messages EXCEPT ![m] = row]
  BY <1>1, <1>3 DEF AttachFiles, RoomInv, MessagesInv
<1>7. /\ messages'[m] = row /\ \A x \in MessageIds \ {m} : messages'[x] = messages[x]
      /\ messages' \in [MessageIds -> Message \cup {Nothing}]
  BY <1>4, <1>6 DEF RoomInv, MessagesInv
<1>8. Moves(r, Idle) /\ r \in load.slots /\ UNCHANGED <<bucket, files, uploads>>
  BY <1>1, AwaitMoves, BusyHasSlot DEF RoomInv, AttachFiles, Done
<1>9. MessageStep(r, Idle)
  <2>1. \A x \in MessageIds : messages[x] # Nothing => messages'[x] # Nothing
    BY <1>5, <1>7
  <2>2. \A f \in FileIds : Stores(f) => files'[f] = files[f]
    BY <1>8
  <2> QED  BY ONLY <1>7, <1>8, <2>1, <2>2 DEF MessageStep
<1>10. MessageSound(Idle)' /\ Idle.pc \notin Uploads /\ call[r].pc \notin Uploads
  BY <1>1 DEF MessageSound, Idle, Uploads
<1>11. \A x \in MessageIds : messages'[x] # Nothing =>
         /\ Belong(messages'[x].sent, messages'[x].agreement)
         /\ messages'[x].attached \subseteq messages'[x].sent
  BY <1>1, <1>4, <1>7 DEF RoomInv, MessagesInv
<1>12. call'[r] = Idle /\ \A s \in Reqs \ {r} : call'[s] = call[s]
  BY <1>8, CallsShapeMoves DEF RoomInv
<1>13. Missing' \subseteq Missing
  <2>1. ASSUME NEW x \in Missing' PROVE x \in Missing
    <3>1. x # m
      BY <1>4, <1>7, <2>1 DEF Missing
    <3> QED  BY <1>1, <1>7, <1>12, <2>1, <3>1 DEF Missing
  <2> QED  BY <2>1
<1> QED  BY <1>8, <1>9, <1>10, <1>11, <1>13, MessagesOnly

LEMMA RoomDiesKeeps == ASSUME RoomInv, NEW r \in Reqs, RoomDies(r) PROVE RoomInv'
<1>1. Moves(r, Idle) /\ r \in load.slots /\ faults' > faults
  BY DiesMoves DEF RoomInv, RoomDies, CallsShape
<1>3. UNCHANGED roomVars
  BY DEF RoomDies
<1>2. UploadSound(Idle) /\ MessageSound(Idle) /\ Idle.pc \notin Uploads
  BY DEF UploadSound, MessageSound, Idle, Uploads
<1> QED  BY <1>1, <1>2, <1>3, RoomReads

LEMMA RoomStays == ASSUME RoomInv, UNCHANGED <<callVars, roomVars>> PROVE RoomInv'
  BY DEF callVars, roomVars, RoomInv, CallsShape, FilesInv, MessagesInv, UploadSound,
         UploadsApart, Orphans, Missing, MessageSound, Belong, Stores

LEMMA RoomStep == ASSUME RoomInv, RoomNext PROVE RoomInv'
<1>1. ASSUME NEW r \in Reqs, NEW u \in load.users, NEW g \in Agreements \cup {Nothing},
             Upload(r, u, g)
      PROVE  RoomInv'
  BY <1>1, UploadBegins
<1>2. ASSUME NEW r \in Reqs, NEW u \in load.users, NEW g \in Agreements,
             NEW ids \in SUBSET FileIds, NEW twice \in BOOLEAN, SendMessage(r, u, g, ids, twice)
      PROVE  RoomInv'
  <2>1. u \in Users
    BY CallsAssumption DEF RoomInv, CallsShape
  <2> QED  BY <1>2, <2>1, SendMessageKeeps
<1>3. ASSUME NEW u \in load.users, NEW a \in ActiveAddresses, Login(u, a, Nothing),
             UNCHANGED roomVars
      PROVE  RoomInv'
  BY <1>3, RoomStays DEF Login
<1> QED  BY <1>1, <1>2, <1>3, StoreObjectKeeps, InsertFileKeeps, InsertFileRefusedKeeps,
            InsertFileAnswerLostKeeps, RemoveObjectKeeps, InsertMessageKeeps, AttachFilesKeeps, RoomDiesKeeps DEF RoomNext

LEMMA RoomInitInv == CallsInit /\ RoomInit => RoomInv
<1> SUFFICES ASSUME CallsInit, RoomInit PROVE RoomInv
  OBVIOUS
<1>1. CallsShape
  BY CallsShapeInit
<1>2. FilesInv
  <2>1. Orphans = {}
    BY DEF Orphans, RoomInit, Stores
  <2>2. Cardinality(Orphans) <= faults
    BY <2>1, FS_EmptySet DEF CallsInit
  <2> QED  BY <2>2, RoomAssumption
           DEF RoomInit, CallsInit, FilesInv, UploadsApart, UploadSound, Uploads, Idle, Stores
<1>3. MessagesInv
  <2>1. Missing = {}
    BY DEF Missing, RoomInit
  <2>2. Cardinality(Missing) <= faults
    BY <2>1, FS_EmptySet DEF CallsInit
  <2> QED  BY <2>2 DEF RoomInit, CallsInit, MessagesInv, MessageSound, Idle
<1> QED  BY <1>1, <1>2, <1>3 DEF RoomInv

\* While another service is served the room stays empty.
RoomServed ==
    /\ faults \in Nat
    /\ IF Serves("room") THEN RoomInv ELSE RoomInit

LEMMA RoomServedInit == ServicesInit => RoomServed
  BY RoomInitInv DEF ServicesInit, RoomServed, CallsInit

LEMMA RoomServedStep == RoomServed /\ [ServicesNext]_serviceVars => RoomServed'
<1> SUFFICES ASSUME RoomServed, [ServicesNext]_serviceVars PROVE RoomServed'
  OBVIOUS
<1>1. Proceeds
  BY LoadKept
<1>2. faults' \in Nat /\ (Serves("room")' <=> Serves("room"))
  BY <1>1 DEF RoomServed, Serves, Proceeds
<1>3. CASE ~Serves("room")
  <2>1. UNCHANGED roomVars
    BY <1>3 DEF ServicesNext, serviceVars, tableVars
  <2> QED  BY <1>2, <1>3, <2>1 DEF RoomServed, roomVars, RoomInit
<1>4. CASE Serves("room") /\ RoomNext
  BY <1>2, <1>4, RoomStep DEF RoomServed
<1>5. CASE Serves("room") /\ UNCHANGED serviceVars
  <2>1. UNCHANGED <<callVars, roomVars>>
    BY <1>5 DEF serviceVars, tableVars
  <2> QED  BY <1>2, <1>5, <2>1, RoomStays DEF RoomServed
<1> QED  BY <1>3, <1>4, <1>5 DEF ServicesNext, Serves

LEMMA RoomAlways == ServicesSpec => []RoomServed
  BY RoomServedInit, RoomServedStep, PTL DEF ServicesSpec

\* Files: a file somebody may read and nobody can download, an object no row
\* tells of and a row without its object have each cost a crash, a failed call
\* or a lost answer, however uploads overlap and fail.
THEOREM FilesAreKept == ServicesSpec => []FilesAreWhole
<1>1. ASSUME RoomServed, Serves("room") PROVE FilesAreWhole
  <2>1. FilesInv /\ faults \in Nat
    BY <1>1 DEF RoomServed, RoomInv
  <2>2. ASSUME NEW X, X \subseteq Orphans PROVE Cardinality(X) <= faults
    <3>1. IsFiniteSet(Orphans) /\ Cardinality(Orphans) \in Nat /\ Cardinality(Orphans) <= faults
      BY <2>1, OrphansFinite DEF FilesInv
    <3>2. IsFiniteSet(X) /\ Cardinality(X) <= Cardinality(Orphans)
      BY <2>2, <3>1, FS_Subset
    <3>3. Cardinality(X) \in Nat
      BY <3>2, FS_CardinalityType
    <3> QED  BY <2>1, <3>1, <3>2, <3>3
  <2>3. {f \in FileIds : \E u \in Users : readableFiles(u, {f}) /\ ~signedUrl(u, f)}
          \subseteq Orphans
    BY <2>1 DEF FilesInv, Orphans, readableFiles, signedUrl
  <2>4. ASSUME AllIdle PROVE {f \in FileIds : Stores(f) # (f \in bucket)} \subseteq Orphans
    <3>1. \A r \in Reqs : call[r].pc \notin Uploads
      BY <2>4 DEF AllIdle, Idle, Uploads
    <3>2. \A f \in FileIds : Stores(f) /\ f \notin bucket => ~files[f].told
      BY <2>1 DEF FilesInv
    <3>3. \A f \in FileIds : (Stores(f) # (f \in bucket)) =>
            IF Stores(f) THEN f \notin bucket ELSE f \in bucket
      BY DEF Stores
    <3> QED  BY <3>1, <3>2, <3>3 DEF Orphans
  <2> QED  BY <2>2, <2>3, <2>4 DEF FilesAreWhole
<1>2. ASSUME RoomServed, ~Serves("room") PROVE FilesAreWhole
  <2>1. RoomInit /\ faults \in Nat
    BY <1>2 DEF RoomServed
  <2>2. \A f \in FileIds : ~Stores(f) /\ f \notin bucket
    BY <2>1 DEF RoomInit, Stores
  <2>3. /\ {f \in FileIds : \E u \in Users : readableFiles(u, {f}) /\ ~signedUrl(u, f)} = {}
        /\ {f \in FileIds : Stores(f) # (f \in bucket)} = {}
    BY <2>1, <2>2 DEF readableFiles, RoomInit, Stores
  <2>4. ASSUME NEW X, X = {} PROVE Cardinality(X) <= faults
    BY <2>1, <2>4, FS_EmptySet
  <2> QED  BY Zenon, <2>3, <2>4 DEF FilesAreWhole
<1>3. RoomServed => FilesAreWhole
  BY <1>1, <1>2
<1> QED  BY <1>3, RoomAlways, PTL

\* The conversation: what a member of an agreement finds in it belongs to the
\* agreement and can be downloaded, and a message without its attachments has
\* cost a fault or named a file twice, however sendMessage overlaps and fails.
THEOREM ConversationIsKept == ServicesSpec => []ConversationIsWhole
<1>1. ASSUME RoomServed, Serves("room") PROVE ConversationIsWhole
  <2>1. FilesInv /\ MessagesInv
    BY <1>1 DEF RoomServed, RoomInv
  <2>2. ASSUME NEW u \in Users, NEW g \in Agreements,
               NEW f \in withAttachments(getMessages(u, g))
        PROVE  files[f].agreement \in {Nothing, g} /\ signedUrl(u, f)
    <3>1. PICK m \in MessageIds : /\ assertAgreementAccess(u, g) /\ messages[m] # Nothing
                                  /\ messages[m].agreement = g /\ f \in messages[m].attached
      BY DEF withAttachments, getMessages
    <3>2. Belong(messages[m].sent, g) /\ f \in messages[m].sent
      BY <2>1, <3>1 DEF MessagesInv
    <3>3. /\ f \in FileIds /\ Stores(f) /\ files[f].agreement \in {Nothing, g}
          /\ f \in bucket
      BY <2>1, <3>2 DEF Belong, FilesInv
    <3>4. readableFiles(u, {f})
      BY <3>1, <3>3 DEF readableFiles
    <3> QED  BY <3>3, <3>4 DEF signedUrl
  <2>3. ASSUME AllIdle
        PROVE  Cardinality({m \in MessageIds : /\ messages[m] # Nothing
                                               /\ messages[m].attached # messages[m].sent
                                               /\ ~messages[m].twice}) <= faults
    <3>1. Missing = {m \in MessageIds : /\ messages[m] # Nothing
                                        /\ messages[m].attached # messages[m].sent
                                        /\ ~messages[m].twice}
      BY <2>3 DEF Missing, AllIdle, Idle
    <3> QED  BY <2>1, <3>1 DEF MessagesInv
  <2> QED  BY <2>2, <2>3 DEF ConversationIsWhole
<1>2. ASSUME RoomServed, ~Serves("room") PROVE ConversationIsWhole
  <2>1. faults \in Nat /\ \A m \in MessageIds : messages[m] = Nothing
    BY <1>2 DEF RoomServed, RoomInit
  <2>2. \A u \in Users, g \in Agreements : withAttachments(getMessages(u, g)) = {}
    BY <2>1 DEF withAttachments, getMessages
  <2>3. {m \in MessageIds : /\ messages[m] # Nothing
                            /\ messages[m].attached # messages[m].sent
                            /\ ~messages[m].twice} = {}
    BY <2>1
  <2> QED  BY <2>1, <2>2, <2>3, FS_EmptySet DEF ConversationIsWhole
<1>3. RoomServed => ConversationIsWhole
  BY <1>1, <1>2
<1> QED  BY <1>3, RoomAlways, PTL

(***************************************************************************)
(* Notices                                                                 *)
(***************************************************************************)

NoticePcs == {"find_agreement", "read_participants", "read_email", "send", "record"}

NoticeSound(c) ==
    \/ c = Idle
    \/ /\ c.pc \in NoticePcs
       /\ c.notice \in 1..served
       /\ logs[c.notice] = {}
       /\ c.pc = "find_agreement" =>
            c = [pc |-> "find_agreement", notice |-> c.notice, excluded |-> c.excluded]
       /\ c.pc = "read_email" =>
            c = [pc |-> "read_email", notice |-> c.notice, todo |-> c.todo, emails |-> c.emails]
       /\ c.pc # "record" => outbox[c.notice] = {}
       /\ c.pc = "send" => c.emails # {}
       /\ c.pc = "record" =>
            /\ c.status \in {"sent", "failed", "skipped"}
            /\ c.status = "sent" => outbox[c.notice] = c.emails /\ c.emails # {}
            /\ c.status = "skipped" => outbox[c.notice] = {}

NoticesApart ==
    \A r, s \in Reqs :
        call[r].pc \in NoticePcs /\ call[s].pc \in NoticePcs /\ call[r].notice = call[s].notice
        => r = s

\* A notice that is over without the rows it should have, or that will be so
\* because an answer was lost.
Amiss(n) ==
    \/ /\ logs[n] = {} \/ outbox[n] # LoggedAsSent(n)
       /\ \A r \in Reqs : call[r].pc \in NoticePcs => call[r].notice # n
    \/ \E r \in Reqs : /\ call[r].pc = "record" /\ call[r].notice = n
                       /\ call[r].status = "failed" /\ outbox[n] # {}

Unlogged == {n \in 1..served : Amiss(n)}

NoticeInv ==
    /\ CallsShape
    /\ Serves("notifications")
    /\ served <= load.requests
    /\ DOMAIN outbox = Notices /\ DOMAIN logs = Notices
    /\ \A n \in Notices : n > served => logs[n] = {} /\ outbox[n] = {}
    /\ \A n \in Notices : LoggedAsSent(n) \subseteq outbox[n]
    /\ \A r \in Reqs : NoticeSound(call[r])
    /\ NoticesApart
    /\ Cardinality(Unlogged) <= faults

LEMMA LoadIsBounded ==
  ASSUME CallsShape, Serves("notifications")
  PROVE  load.requests \in Nat /\ load.requests <= MaxNotices /\ MaxNotices \in Nat
<1>1. load \in Loads /\ load.service = "notifications"
  BY DEF CallsShape, Serves
<1> QED  BY <1>1, CallsAssumption, NoticesAssumption

LEMMA UnloggedFinite ==
  ASSUME NoticeInv PROVE IsFiniteSet(Unlogged) /\ Cardinality(Unlogged) \in Nat
<1>1. IsFiniteSet(1..served)
  BY FS_Interval DEF NoticeInv, CallsShape
<1>2. Unlogged \subseteq 1..served
  BY DEF Unlogged
<1> QED  BY <1>1, <1>2, FS_Subset, FS_CardinalityType

\* The first step of the handler of notice n, or another.
NoticeStep(r, c, n) ==
    /\ Moves(r, c) /\ r \in load.slots
    /\ \/ call[r] = Idle /\ n = served + 1 /\ served' = served + 1 /\ served < load.requests
       \/ call[r].pc \in NoticePcs /\ n = call[r].notice /\ served' = served
    /\ c = Idle \/ (c.pc \in NoticePcs /\ c.notice = n)
    /\ DOMAIN outbox' = Notices /\ DOMAIN logs' = Notices
    /\ \A x \in Notices \ {n} : outbox'[x] = outbox[x] /\ logs'[x] = logs[x]

\* The other handlers are about other notices.
LEMMA OthersApart ==
  ASSUME NoticeInv, NEW r \in Reqs, NEW c, NEW n, NoticeStep(r, c, n),
         NEW s \in Reqs \ {r}, call[s].pc \in NoticePcs
  PROVE  call[s].notice \in 1..served /\ call[s].notice # n
<1>1. call[s] # Idle /\ NoticeSound(call[s])
  BY DEF NoticeInv, NoticePcs, Idle
<1>2. call[s].notice \in 1..served /\ served \in Nat
  BY <1>1 DEF NoticeSound, NoticeInv, CallsShape
<1>3. CASE n = served + 1
  BY <1>2, <1>3
<1>4. CASE call[r].pc \in NoticePcs /\ n = call[r].notice
  BY <1>2, <1>4 DEF NoticeInv, NoticesApart
<1> QED  BY <1>2, <1>3, <1>4 DEF NoticeStep

\* A notice whose handler goes on in c is not amiss, or the rows are there.
LeftRight(c, n) ==
    \/ c.pc \in NoticePcs /\ (c.pc = "record" => c.status # "failed" \/ outbox[n] = {})
    \/ c = Idle /\ logs[n] # {} /\ outbox[n] = LoggedAsSent(n)

LEMMA NoticeKeeps ==
  ASSUME NoticeInv, NEW r \in Reqs, NEW c, NEW n, NoticeStep(r, c, n), NoticeSound(c)',
         (LoggedAsSent(n) \subseteq outbox[n])',
         LeftRight(c, n)' \/ n \in Unlogged \/ faults' > faults
  PROVE  NoticeInv'
<1>1. CallsShape' /\ call'[r] = c /\ \A s \in Reqs \ {r} : call'[s] = call[s]
  BY CallsShapeMoves DEF NoticeInv, NoticeStep
<1>2. served \in Nat /\ served' \in Nat /\ served' >= served /\ n \in 1..served'
  <2>1. served \in Nat
    BY DEF NoticeInv, CallsShape
  <2>2. CASE call[r].pc \in NoticePcs /\ n = call[r].notice /\ served' = served
    <3>1. call[r] # Idle /\ NoticeSound(call[r])
      BY <2>2 DEF NoticeInv, NoticePcs, Idle
    <3>2. n \in 1..served
      BY <2>2, <3>1 DEF NoticeSound
    <3> QED  BY <2>1, <2>2, <3>2
  <2>3. CASE n = served + 1 /\ served' = served + 1
    BY <2>1, <2>3
  <2> QED  BY <2>2, <2>3 DEF NoticeStep
<1>3. /\ served' <= load'.requests /\ Serves("notifications")'
      /\ 1..served' \subseteq Notices /\ 1..served \subseteq Notices
  <2>1. load' = load /\ load.requests \in Nat /\ load.requests <= MaxNotices /\ MaxNotices \in Nat
    BY LoadIsBounded DEF NoticeStep, Moves, NoticeInv
  <2>2. served' <= load.requests /\ served <= load.requests
    BY <1>2, <2>1 DEF NoticeStep, NoticeInv
  <2> QED  BY <1>2, <2>1, <2>2 DEF NoticeInv, Serves, Notices
<1>4. \A x \in Notices \ {n} :
        /\ outbox'[x] = outbox[x] /\ logs'[x] = logs[x]
        /\ LoggedAsSent(x)' = LoggedAsSent(x)
  BY DEF NoticeStep, LoggedAsSent
<1>5. \A x \in Notices : x > served' => logs'[x] = {} /\ outbox'[x] = {}
  <2>1. ASSUME NEW x \in Notices, x > served' PROVE logs'[x] = {} /\ outbox'[x] = {}
    <3>1. x > served /\ x # n
      BY <1>2, <2>1 DEF Notices
    <3> QED  BY <1>4, <3>1 DEF NoticeInv
  <2> QED  BY <2>1
<1>6. \A x \in Notices : (LoggedAsSent(x) \subseteq outbox[x])'
  <2>1. ASSUME NEW x \in Notices PROVE (LoggedAsSent(x) \subseteq outbox[x])'
    <3>1. CASE x = n
      BY <3>1
    <3>2. CASE x # n
      BY <1>4, <3>2 DEF NoticeInv
    <3> QED  BY <3>1, <3>2
  <2> QED  BY <2>1
<1>7. ASSUME NEW s \in Reqs PROVE NoticeSound(call[s])'
  <2>1. CASE s = r
    BY <1>1, <2>1 DEF NoticeSound
  <2>2. CASE s # r
    <3>1. PICK d : d = call[s] /\ d = call'[s]
      BY <1>1, <2>2
    <3>2. NoticeSound(d)
      BY <3>1 DEF NoticeInv
    <3>3. CASE d = Idle
      BY <3>1, <3>3 DEF NoticeSound
    <3>4. CASE d # Idle
      <4>1. d.pc \in NoticePcs /\ d.notice \in 1..served
        BY <3>2, <3>4 DEF NoticeSound
      <4>2. d.notice # n
        BY <2>2, <3>1, <4>1, OthersApart
      <4>3. outbox'[d.notice] = outbox[d.notice] /\ logs'[d.notice] = logs[d.notice]
        BY <1>3, <1>4, <4>1, <4>2
      <4>4. d.notice \in 1..served'
        BY <1>2, <4>1
      <4>5. NoticeSound(d)'
        BY <3>2, <3>4, <4>1, <4>3, <4>4 DEF NoticeSound
      <4> QED  BY <3>1, <4>5 DEF NoticeSound
    <3> QED  BY <3>3, <3>4
  <2> QED  BY <2>1, <2>2
<1>8. NoticesApart'
  <2>1. ASSUME NEW s \in Reqs \ {r}, c.pc \in NoticePcs, call[s].pc \in NoticePcs
        PROVE  c.notice # call[s].notice
    <3>1. c.notice = n
      BY <2>1 DEF NoticeStep, Idle, NoticePcs
    <3> QED  BY <2>1, <3>1, OthersApart
  <2> QED  BY <1>1, <2>1 DEF NoticeInv, NoticesApart
<1>9. Unlogged' \subseteq Unlogged \cup {n}
  <2>1. ASSUME NEW x \in Unlogged', x # n PROVE x \in Unlogged
    <3>1. x \in 1..served' /\ Amiss(x)'
      BY <2>1 DEF Unlogged
    <3>2. x \in 1..served
      BY <1>2, <2>1, <3>1 DEF NoticeStep
    <3>3. outbox'[x] = outbox[x] /\ logs'[x] = logs[x] /\ LoggedAsSent(x)' = LoggedAsSent(x)
      BY <1>3, <1>4, <2>1, <3>2
    <3>4. call[r].pc \in NoticePcs => call[r].notice # x
      BY <1>2, <2>1, <3>2 DEF NoticeStep, Idle, NoticePcs
    <3>5. c.pc \in NoticePcs => c.notice # x
      BY <2>1 DEF NoticeStep, Idle, NoticePcs
    <3>6. CASE /\ logs'[x] = {} \/ outbox'[x] # LoggedAsSent(x)'
               /\ \A s \in Reqs : call'[s].pc \in NoticePcs => call'[s].notice # x
      BY <1>1, <3>2, <3>3, <3>4, <3>6 DEF Unlogged, Amiss
    <3>7. ASSUME NEW s \in Reqs, call'[s].pc = "record", call'[s].notice = x,
                 call'[s].status = "failed", outbox'[x] # {}
          PROVE  x \in Unlogged
      <4>1. s # r
        BY <1>1, <3>5, <3>7 DEF NoticePcs
      <4> QED  BY <1>1, <3>2, <3>3, <3>7, <4>1 DEF Unlogged, Amiss
    <3> QED  BY <3>1, <3>6, <3>7 DEF Amiss
  <2> QED  BY <2>1
<1>10. Unlogged' \subseteq Unlogged \/ faults' > faults
  <2>1. ASSUME LeftRight(c, n)' PROVE n \notin Unlogged'
    <3>1. \A s \in Reqs \ {r} : call'[s].pc \in NoticePcs => call'[s].notice # n
      BY <1>1, OthersApart
    <3>2. c.pc \in NoticePcs => c.notice = n
      BY DEF NoticeStep, Idle, NoticePcs
    <3>3. CASE c.pc \in NoticePcs /\ (c.pc = "record" => c.status # "failed" \/ outbox'[n] = {})
      BY <1>1, <3>1, <3>2, <3>3 DEF Unlogged, Amiss, NoticePcs
    <3>4. CASE c = Idle /\ logs'[n] # {} /\ outbox'[n] = LoggedAsSent(n)'
      BY <1>1, <3>1, <3>4 DEF Unlogged, Amiss, NoticePcs, Idle
    <3> QED  BY <2>1, <3>3, <3>4 DEF LeftRight
  <2> QED  BY <1>9, <2>1
<1>11. Cardinality(Unlogged') <= faults'
  <2>1. IsFiniteSet(Unlogged) /\ Cardinality(Unlogged) \in Nat /\ Cardinality(Unlogged) <= faults
    BY UnloggedFinite DEF NoticeInv
  <2>2. faults \in Nat /\ faults' \in Nat /\ faults' >= faults
    BY DEF NoticeInv, CallsShape, NoticeStep, Moves
  <2>3. CASE Unlogged' \subseteq Unlogged
    <3>1. IsFiniteSet(Unlogged') /\ Cardinality(Unlogged') <= Cardinality(Unlogged)
      BY <2>1, <2>3, FS_Subset
    <3>2. Cardinality(Unlogged') \in Nat
      BY <3>1, FS_CardinalityType
    <3> QED  BY <2>1, <2>2, <3>1, <3>2
  <2>4. CASE faults' > faults
    <3>1. IsFiniteSet(Unlogged') /\ Cardinality(Unlogged') <= 1 + Cardinality(Unlogged)
      BY <1>9, <2>1, GrownByOne
    <3>2. Cardinality(Unlogged') \in Nat
      BY <3>1, FS_CardinalityType
    <3> QED  BY <2>1, <2>2, <2>4, <3>1, <3>2
  <2> QED  BY <1>10, <2>3, <2>4
<1>12. DOMAIN outbox' = Notices /\ DOMAIN logs' = Notices
  BY DEF NoticeStep
<1> QED  BY <1>1, <1>3, <1>5, <1>6, <1>7, <1>8, <1>11, <1>12 DEF NoticeInv

LEMMA NoneLogged == ASSUME NEW n, logs[n] = {} PROVE LoggedAsSent(n) = {}
  BY DEF LoggedAsSent

\* What the handler of r knows of its notice.
LEMMA NoticeOf ==
  ASSUME NoticeInv, NEW r \in Reqs, call[r].pc \in NoticePcs
  PROVE  /\ call[r].notice \in 1..served /\ call[r].notice \in Notices
         /\ logs[call[r].notice] = {} /\ NoticeSound(call[r]) /\ call[r] # Idle
         /\ r \in load.slots
<1>1. call[r] # Idle /\ NoticeSound(call[r])
  BY DEF NoticeInv, NoticePcs, Idle
<1>2. call[r].notice \in 1..served /\ logs[call[r].notice] = {}
  BY <1>1 DEF NoticeSound
<1>3. /\ load.requests \in Nat /\ load.requests <= MaxNotices /\ MaxNotices \in Nat
      /\ served \in Nat /\ served <= load.requests
  BY LoadIsBounded DEF NoticeInv, CallsShape
<1>4. 1..served \subseteq Notices
  BY <1>3 DEF Notices
<1>5. r \in load.slots
  BY <1>1 DEF NoticeInv, CallsShape
<1> QED  BY <1>1, <1>2, <1>4, <1>5

LEMMA NoticeBegins ==
  ASSUME NoticeInv, NEW r \in Reqs, NEW c, Begin(r, c), UNCHANGED <<outbox, logs>>,
         c.pc \in {"find_agreement", "read_participants", "read_email"}, c.notice = served + 1,
         c.pc = "find_agreement" =>
           c = [pc |-> "find_agreement", notice |-> c.notice, excluded |-> c.excluded],
         c.pc = "read_email" =>
           c = [pc |-> "read_email", notice |-> c.notice, todo |-> c.todo, emails |-> c.emails]
  PROVE  NoticeInv'
<1>1. Moves(r, c) /\ r \in load.slots /\ call[r] = Idle
  BY BeginMoves DEF NoticeInv
<1>2. PICK n : n = served + 1
  OBVIOUS
<1>3. served' = n /\ served \in Nat /\ served < load.requests /\ n \in 1..served'
  BY <1>2 DEF Begin, NoticeInv, CallsShape
<1>4. n \in Notices
  <2>1. load.requests \in Nat /\ load.requests <= MaxNotices /\ MaxNotices \in Nat
    BY LoadIsBounded DEF NoticeInv
  <2> QED  BY <1>2, <1>3, <2>1 DEF Notices
<1>5. logs'[n] = {} /\ outbox'[n] = {}
  BY <1>2, <1>3, <1>4 DEF NoticeInv
<1>6. NoticeStep(r, c, n)
  BY <1>1, <1>2, <1>3 DEF NoticeStep, NoticeInv, NoticePcs
<1>7. NoticeSound(c)'
  BY <1>2, <1>3, <1>5 DEF NoticeSound, NoticePcs
<1>8. LeftRight(c, n)'
  BY DEF LeftRight, NoticePcs
<1>9. (LoggedAsSent(n) \subseteq outbox[n])'
  BY <1>5 DEF LoggedAsSent
<1> QED  BY <1>6, <1>7, <1>8, <1>9, NoticeKeeps

\* Before the provider is called.
LEMMA NoticeGoesOn ==
  ASSUME NoticeInv, NEW r \in Reqs, NEW c, Moves(r, c), UNCHANGED <<served, outbox, logs>>,
         call[r].pc \in NoticePcs \ {"record"}, c.notice = call[r].notice,
         c.pc \in {"read_participants", "read_email", "send", "record"},
         c.pc = "read_email" =>
           c = [pc |-> "read_email", notice |-> c.notice, todo |-> c.todo, emails |-> c.emails],
         c.pc = "send" => c.emails # {},
         c.pc = "record" => c.status \in {"failed", "skipped"}
  PROVE  NoticeInv'
<1>1. PICK n : n = call[r].notice
  OBVIOUS
<1>2. n \in 1..served /\ logs[n] = {} /\ r \in load.slots /\ NoticeSound(call[r])
      /\ call[r] # Idle
  BY <1>1, NoticeOf
<1>3. outbox[n] = {}
  BY <1>1, <1>2 DEF NoticeSound
<1>4. NoticeStep(r, c, n)
  BY <1>1, <1>2 DEF NoticeStep, NoticeInv, NoticePcs
<1>5. NoticeSound(c)'
  BY <1>1, <1>2, <1>3 DEF NoticeSound, NoticePcs
<1>6. LeftRight(c, n)'
  BY <1>3 DEF LeftRight, NoticePcs
<1>7. (LoggedAsSent(n) \subseteq outbox[n])'
  BY <1>2 DEF LoggedAsSent
<1> QED  BY <1>4, <1>5, <1>6, <1>7, NoticeKeeps

\* What notify makes of a handler that has read whom to mail.
LEMMA Notifies ==
  ASSUME NEW n, NEW todo, NEW emails, NEW d,
         d = notify([pc |-> "read_email", notice |-> n, todo |-> todo, emails |-> emails])
  PROVE  /\ d.notice = n
         /\ d.pc \in {"send", "record"}
         /\ d.pc = "send" => d.emails # {}
         /\ d.pc = "record" => d.status \in {"failed", "skipped"}
<1>1. PICK c : c = [pc |-> "read_email", notice |-> n, todo |-> todo, emails |-> emails]
  OBVIOUS
<1>2. d = notify(c)
  BY <1>1
<1>3. CASE emails = {} \/ ~mailer
  BY <1>1, <1>2, <1>3 DEF notify, sendEmail, ToRecord
<1>4. CASE emails # {} /\ mailer
  BY <1>1, <1>2, <1>4 DEF notify, sendEmail
<1> QED  BY <1>3, <1>4

LEMMA EventKeeps ==
  ASSUME NoticeInv, NEW r \in Reqs, NEW event, NEW a, OnEvent(r, event, a) PROVE NoticeInv'
<1>1. PICK c : c = [pc |-> IF event \in DISPUTE_EVENTS THEN "find_agreement"
                                                       ELSE "read_participants",
                    notice |-> served + 1,
                    excluded |-> IF event = "evidence_submitted" THEN a ELSE Nothing]
  OBVIOUS
<1>2. Begin(r, c) /\ UNCHANGED <<outbox, logs>>
  BY <1>1 DEF OnEvent, noticeVars
<1>3. c.pc = "find_agreement" =>
        c = [pc |-> "find_agreement", notice |-> c.notice, excluded |-> c.excluded]
  BY <1>1
<1> QED  BY <1>1, <1>2, <1>3, NoticeBegins

LEMMA RequestKeeps ==
  ASSUME NoticeInv, NEW r \in Reqs,
         OnRequest(r) \/ \E ws \in SUBSET ActiveAddresses : sendCustomNotification(r, ws)
  PROVE  NoticeInv'
<1>1. CASE OnRequest(r)
  <2>1. PICK c : c = [pc |-> "read_participants", notice |-> served + 1, excluded |-> Nothing]
    OBVIOUS
  <2>2. Begin(r, c) /\ UNCHANGED <<outbox, logs>>
    BY <1>1, <2>1 DEF OnRequest, noticeVars
  <2> QED  BY <2>1, <2>2, NoticeBegins
<1>2. ASSUME NEW ws, sendCustomNotification(r, ws) PROVE NoticeInv'
  <2>1. PICK c : c = [pc |-> "read_email", notice |-> served + 1, todo |-> ws, emails |-> {}]
    OBVIOUS
  <2>2. Begin(r, c) /\ UNCHANGED <<outbox, logs>>
    BY <1>2, <2>1 DEF sendCustomNotification, noticeVars
  <2> QED  BY <2>1, <2>2, NoticeBegins
<1> QED  BY <1>1, <1>2

LEMMA FindKeeps == ASSUME NoticeInv, NEW r \in Reqs, FindAgreement(r) PROVE NoticeInv'
<1>1. call[r].pc = "find_agreement" /\ UNCHANGED <<outbox, logs>>
  BY DEF FindAgreement, At, noticeVars
<1>2. call[r] = [pc |-> "find_agreement", notice |-> call[r].notice,
                 excluded |-> call[r].excluded]
  BY <1>1, NoticeOf DEF NoticeSound, NoticePcs
<1>3. PICK c : c = [call[r] EXCEPT !.pc = "read_participants"]
  OBVIOUS
<1>4. c.pc = "read_participants" /\ c.notice = call[r].notice
  BY <1>2, <1>3
<1>5. Await(r, c)
  BY <1>3 DEF FindAgreement
<1>6. Moves(r, c) /\ UNCHANGED served
  BY <1>5, AwaitMoves DEF NoticeInv
<1> QED  BY <1>1, <1>4, <1>6, NoticeGoesOn DEF NoticePcs

LEMMA ParticipantsKeep ==
  ASSUME NoticeInv, NEW r \in Reqs, getParticipantEmails(r) \/ ReadParticipantsFails(r)
  PROVE  NoticeInv'
<1>1. call[r].pc = "read_participants" /\ UNCHANGED <<outbox, logs>>
  BY DEF getParticipantEmails, ReadParticipantsFails, At, noticeVars
<1>2. PICK n : n = call[r].notice
  OBVIOUS
<1>3. ASSUME NEW todo, NEW c, NEW d,
             c = [pc |-> "read_email", notice |-> n, todo |-> todo, emails |-> {}],
             d = c \/ d = notify(c), Moves(r, d), UNCHANGED served
      PROVE  NoticeInv'
  <2>1. CASE d = c
    BY <1>1, <1>2, <1>3, <2>1, NoticeGoesOn DEF NoticePcs
  <2>2. CASE d = notify(c)
    <3>1. /\ d.notice = n /\ d.pc \in {"send", "record"}
          /\ d.pc = "send" => d.emails # {}
          /\ d.pc = "record" => d.status \in {"failed", "skipped"}
      BY <1>3, <2>2, Notifies
    <3> QED  BY <1>1, <1>2, <1>3, <3>1, NoticeGoesOn DEF NoticePcs
  <2> QED  BY <1>3, <2>1, <2>2
<1>4. CASE getParticipantEmails(r)
  <2>1. PICK todo : todo = members \ {call[r].excluded}
    OBVIOUS
  <2>2. PICK c : c = [pc |-> "read_email", notice |-> n, todo |-> todo, emails |-> {}]
    OBVIOUS
  <2>3. PICK d : d = IF todo = {} THEN notify(c) ELSE c
    OBVIOUS
  <2>4. Await(r, d)
    BY <1>2, <1>4, <2>1, <2>2, <2>3 DEF getParticipantEmails
  <2>5. Moves(r, d) /\ UNCHANGED served
    BY <2>4, AwaitMoves DEF NoticeInv
  <2> QED  BY <1>3, <2>2, <2>3, <2>5
<1>5. CASE ReadParticipantsFails(r)
  <2>1. PICK c : c = [pc |-> "read_email", notice |-> n, todo |-> {}, emails |-> {}]
    OBVIOUS
  <2>2. PICK d : d = notify(c)
    OBVIOUS
  <2>3. call' = [call EXCEPT ![r] = d] /\ faults' = faults + 1 /\ UNCHANGED <<load, served>>
    BY <1>2, <1>5, <2>1, <2>2 DEF ReadParticipantsFails
  <2>4. Moves(r, d)
    BY <2>3 DEF Moves, NoticeInv, CallsShape
  <2> QED  BY <1>3, <2>1, <2>2, <2>3, <2>4
<1> QED  BY <1>4, <1>5

LEMMA EmailKeeps == ASSUME NoticeInv, NEW r \in Reqs, getEmailForWallet(r) PROVE NoticeInv'
<1>1. call[r].pc = "read_email" /\ UNCHANGED <<outbox, logs>>
  BY DEF getEmailForWallet, At, noticeVars
<1>2. call[r] = [pc |-> "read_email", notice |-> call[r].notice, todo |-> call[r].todo,
                 emails |-> call[r].emails]
  BY <1>1, NoticeOf DEF NoticeSound, NoticePcs
<1>3. PICK a, todo, emails, c, d :
        /\ todo = call[r].todo \ {a}
        /\ emails = IF a \in mailable THEN call[r].emails \cup {a} ELSE call[r].emails
        /\ c = [call[r] EXCEPT !.todo = todo, !.emails = emails]
        /\ d = IF c.todo = {} THEN notify(c) ELSE c
        /\ Await(r, d)
  BY DEF getEmailForWallet
<1>4. PICK n : /\ c = [pc |-> "read_email", notice |-> n, todo |-> todo, emails |-> emails]
               /\ n = call[r].notice
  <2>1. PICK n, old, rest, half :
          /\ n = call[r].notice /\ old = call[r].todo /\ rest = call[r].emails
          /\ half = [pc |-> "read_email", notice |-> n, todo |-> todo, emails |-> rest]
    OBVIOUS
  <2>2. [call[r] EXCEPT !.todo = todo] = half
    <3>1. call[r] = [pc |-> "read_email", notice |-> n, todo |-> old, emails |-> rest]
      BY <1>2, <2>1
    <3> QED  BY <2>1, <3>1
  <2>3. c = [half EXCEPT !.emails = emails]
    BY <1>3, <2>2
  <2>4. c = [pc |-> "read_email", notice |-> n, todo |-> todo, emails |-> emails]
    BY <2>1, <2>3
  <2> QED  BY <2>1, <2>4
<1>5. Moves(r, d) /\ UNCHANGED served
  BY <1>3, AwaitMoves DEF NoticeInv
<1>6. CASE d = c
  BY <1>1, <1>4, <1>5, <1>6, NoticeGoesOn DEF NoticePcs
<1>7. CASE d = notify(c)
  <2>1. /\ d.notice = n /\ d.pc \in {"send", "record"}
        /\ d.pc = "send" => d.emails # {}
        /\ d.pc = "record" => d.status \in {"failed", "skipped"}
    BY <1>4, <1>7, Notifies
  <2> QED  BY <1>1, <1>4, <1>5, <2>1, NoticeGoesOn DEF NoticePcs
<1> QED  BY <1>3, <1>6, <1>7

LEMMA RefusedKeeps == ASSUME NoticeInv, NEW r \in Reqs, SendRefused(r) PROVE NoticeInv'
<1>1. call[r].pc = "send" /\ UNCHANGED <<outbox, logs>>
  BY DEF SendRefused, At, noticeVars
<1>2. PICK c : c = ToRecord(call[r], "failed")
  OBVIOUS
<1>3. c.pc = "record" /\ c.notice = call[r].notice /\ c.status = "failed"
  BY <1>2 DEF ToRecord
<1>4. Await(r, c)
  BY <1>2 DEF SendRefused
<1>5. Moves(r, c) /\ UNCHANGED served
  BY <1>4, AwaitMoves DEF NoticeInv
<1> QED  BY <1>1, <1>3, <1>5, NoticeGoesOn DEF NoticePcs

LEMMA SentKeeps ==
  ASSUME NoticeInv, NEW r \in Reqs, SendAccepted(r) \/ SendAnswerLost(r) PROVE NoticeInv'
<1>1. call[r].pc = "send" /\ UNCHANGED logs
  BY DEF SendAccepted, SendAnswerLost, At
<1>2. PICK n \in Notices : n = call[r].notice /\ n \in 1..served /\ logs[n] = {}
  BY <1>1, NoticeOf DEF NoticePcs
<1>3. PICK emails : emails = call[r].emails /\ emails # {}
  BY <1>1, NoticeOf DEF NoticeSound, NoticePcs
<1>4. PICK c, status :
        /\ c = [pc |-> "record", notice |-> n, emails |-> emails, status |-> status]
        /\ status \in {"sent", "failed"}
        /\ status = "failed" => faults' > faults
        /\ Moves(r, c) /\ UNCHANGED served
  <2>1. CASE SendAccepted(r)
    <3>1. PICK c : c = [pc |-> "record", notice |-> n, emails |-> emails, status |-> "sent"]
      OBVIOUS
    <3>2. Await(r, c)
      BY <1>2, <1>3, <2>1, <3>1 DEF SendAccepted, ToRecord
    <3>3. Moves(r, c) /\ UNCHANGED served
      BY <3>2, AwaitMoves DEF NoticeInv
    <3> QED  BY <3>1, <3>3
  <2>2. CASE SendAnswerLost(r)
    <3>1. PICK c : c = [pc |-> "record", notice |-> n, emails |-> emails, status |-> "failed"]
      OBVIOUS
    <3>2. call' = [call EXCEPT ![r] = c] /\ faults' = faults + 1 /\ UNCHANGED <<load, served>>
      BY <1>2, <1>3, <2>2, <3>1 DEF SendAnswerLost, ToRecord
    <3>3. Moves(r, c) /\ faults' > faults
      BY <3>2 DEF Moves, NoticeInv, CallsShape
    <3> QED  BY <3>1, <3>2, <3>3
  <2> QED  BY <2>1, <2>2
<1>5. outbox' = [outbox EXCEPT ![n] = emails]
  BY <1>2, <1>3 DEF SendAccepted, SendAnswerLost
<1>6. /\ outbox'[n] = emails /\ DOMAIN outbox' = Notices
      /\ \A x \in Notices \ {n} : outbox'[x] = outbox[x]
  BY <1>5 DEF NoticeInv
<1>7. NoticeStep(r, c, n)
  <2>1. r \in load.slots
    BY <1>1, NoticeOf DEF NoticePcs
  <2>2. DOMAIN logs' = Notices /\ \A x \in Notices \ {n} : logs'[x] = logs[x]
    BY <1>1 DEF NoticeInv
  <2> QED  BY <1>1, <1>2, <1>4, <1>6, <2>1, <2>2 DEF NoticeStep, NoticePcs
<1>8. NoticeSound(c)'
  BY <1>1, <1>2, <1>3, <1>4, <1>6 DEF NoticeSound, NoticePcs
<1>9. LeftRight(c, n)' \/ faults' > faults
  BY <1>4 DEF LeftRight, NoticePcs
<1>10. (LoggedAsSent(n) \subseteq outbox[n])'
  BY <1>1, <1>2 DEF LoggedAsSent
<1> QED  BY <1>7, <1>8, <1>9, <1>10, NoticeKeeps

\* The rows say sent exactly when the mails went out, unless an answer was lost.
LEMMA RecordKeeps == ASSUME NoticeInv, NEW r \in Reqs, recordNotification(r) PROVE NoticeInv'
<1>1. call[r].pc = "record" /\ UNCHANGED outbox
  BY DEF recordNotification, At
<1>2. PICK n \in Notices : n = call[r].notice /\ n \in 1..served /\ logs[n] = {}
  BY <1>1, NoticeOf DEF NoticePcs
<1>3. PICK emails, status : emails = call[r].emails /\ status = call[r].status
  OBVIOUS
<1>4. /\ status \in {"sent", "failed", "skipped"}
      /\ status = "sent" => outbox[n] = emails /\ emails # {}
      /\ status = "skipped" => outbox[n] = {}
  <2>1. NoticeSound(call[r]) /\ call[r] # Idle
    BY <1>1, NoticeOf DEF NoticePcs
  <2> QED  BY <1>1, <1>2, <1>3, <2>1 DEF NoticeSound
<1>5. PICK rows : rows = [status : {status}, recipient : IF emails = {} THEN {Nothing} ELSE emails]
  OBVIOUS
<1>6. /\ logs'[n] = rows /\ DOMAIN logs' = Notices
      /\ \A x \in Notices \ {n} : logs'[x] = logs[x]
  <2>1. logs' = [logs EXCEPT ![n] = logs[n] \cup rows]
    BY <1>2, <1>3, <1>5 DEF recordNotification, Rows
  <2> QED  BY <1>2, <2>1 DEF NoticeInv
<1>7. LoggedAsSent(n)' = IF status = "sent" THEN emails ELSE {}
  <2>1. LoggedAsSent(n)' = {row.recipient : row \in {l \in rows : l.status = "sent"}}
    BY <1>6 DEF LoggedAsSent
  <2>2. CASE status # "sent"
    <3>1. {l \in rows : l.status = "sent"} = {}
      BY <1>5, <2>2
    <3> QED  BY <2>1, <2>2, <3>1
  <2>3. CASE status = "sent"
    <3>1. rows = [status : {"sent"}, recipient : emails]
      BY <1>4, <1>5, <2>3
    <3>2. \A a \in emails : \E row \in {l \in rows : l.status = "sent"} : a = row.recipient
      <4>1. ASSUME NEW a \in emails
            PROVE  \E row \in {l \in rows : l.status = "sent"} : a = row.recipient
        <5>1. PICK row : row = [status |-> "sent", recipient |-> a]
          OBVIOUS
        <5>2. row \in {l \in rows : l.status = "sent"} /\ a = row.recipient
          BY <3>1, <5>1
        <5> QED  BY <5>2
      <4> QED  BY <4>1
    <3>3. \A row \in {l \in rows : l.status = "sent"} : row.recipient \in emails
      BY <3>1
    <3>4. emails \subseteq {row.recipient : row \in {l \in rows : l.status = "sent"}}
      BY <3>2
    <3>5. {row.recipient : row \in {l \in rows : l.status = "sent"}} \subseteq emails
      BY <3>3
    <3> QED  BY <2>1, <2>3, <3>4, <3>5
  <2> QED  BY <2>2, <2>3
<1>8. rows # {}
  <2>1. PICK a : a \in IF emails = {} THEN {Nothing} ELSE emails
    OBVIOUS
  <2>2. [status |-> status, recipient |-> a] \in rows
    BY <1>5, <2>1
  <2> QED  BY <2>2
<1>9. Moves(r, Idle) /\ UNCHANGED served
  BY AwaitMoves DEF NoticeInv, recordNotification, Done
<1>10. NoticeStep(r, Idle, n)
  <2>1. r \in load.slots
    BY <1>1, NoticeOf DEF NoticePcs
  <2>2. DOMAIN outbox' = Notices /\ \A x \in Notices \ {n} : outbox'[x] = outbox[x]
    BY <1>1 DEF NoticeInv
  <2> QED  BY <1>1, <1>2, <1>6, <1>9, <2>1, <2>2 DEF NoticeStep, NoticePcs
<1>11. NoticeSound(Idle)'
  BY DEF NoticeSound
<1>12. (LoggedAsSent(n) \subseteq outbox[n])'
  BY <1>1, <1>4, <1>7
<1>13. LeftRight(Idle, n)' \/ n \in Unlogged
  <2>1. CASE status = "failed" /\ outbox[n] # {}
    BY <1>1, <1>2, <1>3, <2>1 DEF Unlogged, Amiss
  <2>2. CASE status # "failed" \/ outbox[n] = {}
    BY <1>1, <1>4, <1>6, <1>7, <1>8, <2>2 DEF LeftRight
  <2> QED  BY <2>1, <2>2
<1> QED  BY <1>10, <1>11, <1>12, <1>13, NoticeKeeps

LEMMA NoticeDiesKeeps == ASSUME NoticeInv, NEW r \in Reqs, NoticeDies(r) PROVE NoticeInv'
<1>1. call[r].pc \in NoticePcs
  BY DEF NoticeInv, NoticeSound, NoticeDies, Dies
<1>2. PICK n \in Notices : n = call[r].notice /\ logs[n] = {} /\ r \in load.slots
  BY <1>1, NoticeOf
<1>3. Moves(r, Idle) /\ faults' > faults /\ UNCHANGED served
  BY DiesMoves DEF NoticeInv, CallsShape, NoticeDies
<1>4. UNCHANGED <<outbox, logs>>
  BY DEF NoticeDies, noticeVars
<1>5. NoticeStep(r, Idle, n)
  BY <1>1, <1>2, <1>3, <1>4 DEF NoticeStep, NoticeInv
<1>6. NoticeSound(Idle)'
  BY DEF NoticeSound
<1>7. (LoggedAsSent(n) \subseteq outbox[n])'
  BY <1>2, <1>4 DEF LoggedAsSent
<1> QED  BY <1>3, <1>5, <1>6, <1>7, NoticeKeeps

LEMMA NoticeStays == ASSUME NoticeInv, UNCHANGED <<callVars, outbox, logs>> PROVE NoticeInv'
  BY DEF callVars, NoticeInv, CallsShape, NoticeSound, NoticesApart, Unlogged, Amiss, LoggedAsSent,
         Serves

LEMMA NoticesStep == ASSUME NoticeInv, NotificationsNext PROVE NoticeInv'
<1>1. ASSUME NEW a, MemberJoins(a) \/ EmailChanges(a) PROVE NoticeInv'
  BY <1>1, NoticeStays DEF MemberJoins, EmailChanges
<1> QED  BY <1>1, EventKeeps, RequestKeeps, FindKeeps, ParticipantsKeep, EmailKeeps, RefusedKeeps,
            SentKeeps, RecordKeeps, NoticeDiesKeeps DEF NotificationsNext

LEMMA NoticesInitInv == CallsInit /\ NoticesInit /\ Serves("notifications") => NoticeInv
<1> SUFFICES ASSUME CallsInit, NoticesInit, Serves("notifications") PROVE NoticeInv
  OBVIOUS
<1>1. CallsShape /\ served = 0 /\ faults = 0
  BY CallsShapeInit DEF CallsInit
<1>2. load.requests \in Nat
  BY <1>1, LoadIsBounded
<1>3. Unlogged = {}
  BY <1>1 DEF Unlogged
<1>4. Cardinality(Unlogged) <= faults
  BY <1>1, <1>3, FS_EmptySet
<1>5. \A r \in Reqs : call[r] = Idle
  BY DEF CallsInit
<1>6. NoticesApart /\ \A r \in Reqs : NoticeSound(call[r])
  BY <1>5 DEF NoticesApart, NoticeSound, Idle, NoticePcs
<1>7. /\ DOMAIN outbox = Notices /\ DOMAIN logs = Notices
      /\ \A n \in Notices : logs[n] = {} /\ outbox[n] = {}
  BY DEF NoticesInit
<1> QED  BY <1>1, <1>2, <1>4, <1>6, <1>7 DEF NoticeInv, LoggedAsSent

NoticesServed ==
    IF Serves("notifications") THEN NoticeInv ELSE \A n \in Notices : logs[n] = {}

LEMMA NoticesServedInit == ServicesInit => NoticesServed
  BY NoticesInitInv DEF ServicesInit, NoticesServed, NoticesInit

LEMMA NoticesServedStep == NoticesServed /\ [ServicesNext]_serviceVars => NoticesServed'
<1> SUFFICES ASSUME NoticesServed, [ServicesNext]_serviceVars PROVE NoticesServed'
  OBVIOUS
<1>1. Serves("notifications")' <=> Serves("notifications")
  BY LoadKept DEF Serves, Proceeds
<1>2. CASE ~Serves("notifications")
  <2>1. UNCHANGED noticeVars
    BY <1>2 DEF ServicesNext, serviceVars, tableVars
  <2> QED  BY <1>1, <1>2, <2>1 DEF NoticesServed, noticeVars
<1>3. CASE Serves("notifications") /\ NotificationsNext
  BY <1>1, <1>3, NoticesStep DEF NoticesServed
<1>4. CASE Serves("notifications") /\ UNCHANGED serviceVars
  <2>1. UNCHANGED <<callVars, outbox, logs>>
    BY <1>4 DEF serviceVars, tableVars, noticeVars
  <2> QED  BY <1>1, <1>4, <2>1, NoticeStays DEF NoticesServed
<1> QED  BY <1>2, <1>3, <1>4 DEF ServicesNext, Serves

\* The log of mails: whoever it calls sent has been mailed, and a notice that
\* ended without a row, or with mails its rows do not call sent, has cost a
\* failed call or a crash, however notices overlap and whatever the provider
\* answers.
THEOREM LogIsTrue == ServicesSpec => []LogTellsTheTruth
<1>1. ASSUME NoticesServed, Serves("notifications") PROVE LogTellsTheTruth
  <2>1. NoticeInv
    BY <1>1 DEF NoticesServed
  <2>2. ASSUME AllIdle
        PROVE  Cardinality({n \in 1..served : logs[n] = {} \/ outbox[n] # LoggedAsSent(n)}) <= faults
    <3>1. Unlogged = {n \in 1..served : logs[n] = {} \/ outbox[n] # LoggedAsSent(n)}
      BY <2>2 DEF Unlogged, Amiss, AllIdle, Idle, NoticePcs
    <3> QED  BY <2>1, <3>1 DEF NoticeInv
  <2> QED  BY <2>1, <2>2 DEF LogTellsTheTruth, NoticeInv
<1>2. ASSUME NoticesServed, ~Serves("notifications") PROVE LogTellsTheTruth
  BY <1>2 DEF NoticesServed, LogTellsTheTruth, LoggedAsSent
<1>3. NoticesServed => LogTellsTheTruth
  BY <1>1, <1>2
<1>4. ServicesSpec => []NoticesServed
  BY NoticesServedInit, NoticesServedStep, PTL DEF ServicesSpec
<1> QED  BY <1>3, <1>4, PTL

(***************************************************************************)
(* The in-memory queue, for any number of ticks, jobs and retries.         *)
(***************************************************************************)

Poll == [due : SUBSET MemoryJobs, job : MemoryJobs \cup {0}, running : BOOLEAN]

MemoryTypes ==
    /\ queue \in [MemoryJobs -> MemoryRow \cup {Nothing, Forgotten}]
    /\ polls \in [Ticks -> Poll]
    /\ processing \in BOOLEAN
    /\ successes \in [MemoryJobs -> Nat]
    /\ failures \in [MemoryJobs -> Nat]

\* The guard: at most one poll runs, and only while processing is set.
OnePoll ==
    /\ \A t \in Ticks : polls[t].running => processing
    /\ \A t \in Ticks : polls[t].due # {} \/ polls[t].job # 0 => polls[t].running
    /\ \A t, s \in Ticks : polls[t].running /\ polls[s].running => t = s

\* What a poll still holds has not been moved by anybody else.
PollsHold ==
    \A t \in Ticks :
        /\ \A j \in polls[t].due : Has(j, {"queued"})
        /\ polls[t].job # 0 => Has(polls[t].job, {"processing"})

\* The row of a job agrees with what its handler did.
Honest(j) ==
    /\ successes[j] <= 1
    /\ failures[j] <= maxRetries
    /\ queue[j] = Nothing => successes[j] = 0 /\ failures[j] = 0
    /\ Has(j, {"completed"}) => successes[j] = 1
    /\ Has(j, {"queued", "processing", "failed"}) =>
         successes[j] = 0 /\ failures[j] = queue[j].retryCount
    /\ Has(j, {"queued", "processing"}) => failures[j] < maxRetries
    /\ Has(j, {"failed"}) => failures[j] = maxRetries

RowsHonest == \A j \in MemoryJobs : Honest(j)

MemoryInv == MemoryTypes /\ OnePoll /\ PollsHold /\ RowsHonest

\* A row that has a status is a row.
LEMMA HasRow ==
  ASSUME MemoryTypes, NEW j \in MemoryJobs, NEW S,
         S \subseteq {"queued", "processing", "completed", "failed"}, Has(j, S)
  PROVE  queue[j] \in MemoryRow /\ queue[j].status \in S
  BY DEF MemoryTypes, Has, Forgotten

\* One step of one job leaves the rows of the others alone.
LEMMA OneRowMoves ==
  ASSUME MemoryInv, NEW j \in MemoryJobs, NEW row \in MemoryRow,
         queue' = [queue EXCEPT ![j] = row],
         successes' \in [MemoryJobs -> Nat], failures' \in [MemoryJobs -> Nat],
         \A i \in MemoryJobs \ {j} : successes'[i] = successes[i] /\ failures'[i] = failures[i],
         Honest(j)'
  PROVE  /\ queue' \in [MemoryJobs -> MemoryRow \cup {Nothing, Forgotten}]
         /\ RowsHonest'
         /\ \A i \in MemoryJobs \ {j} : queue'[i] = queue[i]
         /\ queue'[j] = row /\ row # Nothing
<1>1. /\ queue' \in [MemoryJobs -> MemoryRow \cup {Nothing, Forgotten}]
      /\ \A i \in MemoryJobs \ {j} : queue'[i] = queue[i]
      /\ queue'[j] = row /\ row # Nothing
  BY MemoryQueueAssumption DEF MemoryInv, MemoryTypes
<1>2. ASSUME NEW i \in MemoryJobs \ {j} PROVE Honest(i)'
  <2>1. Honest(i)
    BY DEF MemoryInv, RowsHonest
  <2> QED  BY <1>1, <2>1 DEF Honest, Has
<1> QED  BY <1>1, <1>2 DEF RowsHonest

LEMMA MemoryInvInit == CallsInit /\ MemoryInit => MemoryInv
<1> SUFFICES ASSUME MemoryInit PROVE MemoryInv
  OBVIOUS
<1> USE MemoryQueueAssumption DEF MemoryInit
<1>1. MemoryTypes
  BY DEF MemoryTypes, Poll, NoPoll
<1>2. OnePoll /\ PollsHold
  BY DEF OnePoll, PollsHold, NoPoll
<1>3. RowsHonest
  BY DEF RowsHonest, Honest, Has
<1> QED  BY <1>1, <1>2, <1>3 DEF MemoryInv

\* What is not running holds nothing.
LEMMA OthersHoldNothing ==
  ASSUME MemoryInv, NEW t \in Ticks, polls[t].running
  PROVE  \A s \in Ticks \ {t} : ~polls[s].running /\ polls[s].due = {} /\ polls[s].job = 0
  BY DEF MemoryInv, OnePoll

\* Steps that touch one row and no poll: they move it from a status that no
\* poll holds, or leave its status alone.
LEMMA PollsStay ==
  ASSUME MemoryInv, NEW j \in MemoryJobs, NEW row \in MemoryRow,
         queue' = [queue EXCEPT ![j] = row], UNCHANGED <<polls, processing>>,
         ~Has(j, {"queued", "processing"}) \/ row.status = queue[j].status
  PROVE  OnePoll' /\ PollsHold'
<1>1. OnePoll'
  BY DEF MemoryInv, OnePoll
<1>2. row # Nothing
  BY MemoryQueueAssumption
<1>3. ASSUME NEW i \in MemoryJobs, NEW S \in {{"queued"}, {"processing"}}, Has(i, S)
      PROVE  Has(i, S)'
  BY <1>2, <1>3 DEF MemoryInv, MemoryTypes, Has
<1>4. PollsHold'
  BY <1>3 DEF MemoryInv, MemoryTypes, PollsHold, Poll
<1> QED  BY <1>1, <1>4

LEMMA EnqueuePreserves ==
  ASSUME MemoryInv, NEW j \in MemoryJobs, NEW type \in JobTypes, MemoryEnqueue(j, type)
  PROVE  MemoryInv'
<1> DEFINE row == [status |-> "queued", type |-> type, retryCount |-> 0, due |-> TRUE]
<1>1. /\ row \in MemoryRow
      /\ queue' = [queue EXCEPT ![j] = row]
      /\ ~Has(j, {"queued", "processing"})
  BY DEF MemoryEnqueue, MemoryRow, Has
<1>2. successes[j] = 0 /\ failures[j] = 0
  BY DEF MemoryEnqueue, MemoryInv, RowsHonest, Honest
<1>3. queue'[j] = row /\ row # Nothing
  BY <1>1, MemoryQueueAssumption DEF MemoryInv, MemoryTypes
<1>4. Honest(j)'
  BY <1>2, <1>3, MemoryQueueAssumption DEF MemoryEnqueue, Honest, Has
<1>5. RowsHonest' /\ MemoryTypes'
  BY <1>1, <1>4, OneRowMoves DEF MemoryEnqueue, MemoryInv, MemoryTypes
<1>6. OnePoll' /\ PollsHold'
  BY <1>1, PollsStay DEF MemoryEnqueue
<1> QED  BY <1>5, <1>6 DEF MemoryInv

LEMMA BackoffPreserves ==
  ASSUME MemoryInv, NEW j \in MemoryJobs, MemoryBackoffElapses(j)
  PROVE  MemoryInv'
<1> DEFINE row == [queue[j] EXCEPT !.due = TRUE]
<1>1. queue[j] \in MemoryRow /\ queue[j].status = "queued"
  BY HasRow DEF MemoryBackoffElapses, MemoryInv
<1>2. row \in MemoryRow /\ row.status = queue[j].status /\ row.retryCount = queue[j].retryCount
  BY <1>1 DEF MemoryRow
<1>3. queue' = [queue EXCEPT ![j] = row]
  BY DEF MemoryBackoffElapses
<1>4. queue'[j] = row /\ row # Nothing
  BY <1>2, <1>3, MemoryQueueAssumption DEF MemoryInv, MemoryTypes
<1>5. Honest(j)'
  <2>1. Honest(j)
    BY DEF MemoryInv, RowsHonest
  <2> QED  BY <1>1, <1>2, <1>4, <2>1 DEF MemoryBackoffElapses, Honest, Has
<1>6. RowsHonest' /\ MemoryTypes'
  BY <1>2, <1>3, <1>5, OneRowMoves DEF MemoryBackoffElapses, MemoryInv, MemoryTypes
<1>7. OnePoll' /\ PollsHold'
  BY <1>2, <1>3, PollsStay DEF MemoryBackoffElapses
<1> QED  BY <1>6, <1>7 DEF MemoryInv

LEMMA RetryPreserves ==
  ASSUME MemoryInv, NEW j \in MemoryJobs, retryJob(j)
  PROVE  MemoryInv'
<1> DEFINE row == [queue[j] EXCEPT !.retryCount = 0, !.status = "queued", !.due = TRUE]
<1>1. queue[j] \in MemoryRow /\ queue[j].status = "failed"
  BY HasRow DEF retryJob, MemoryInv
<1>2. row \in MemoryRow /\ row.status = "queued" /\ row.retryCount = 0
  BY <1>1 DEF MemoryRow
<1>3. queue' = [queue EXCEPT ![j] = row]
  BY DEF retryJob
<1>4. queue'[j] = row /\ queue'[j] # Nothing /\ queue'[j].status = "queued" /\ queue'[j].retryCount = 0
  BY <1>2, <1>3, MemoryQueueAssumption DEF MemoryInv, MemoryTypes
<1>5. /\ failures' \in [MemoryJobs -> Nat] /\ failures'[j] = 0
      /\ \A i \in MemoryJobs \ {j} : failures'[i] = failures[i]
  BY DEF retryJob, MemoryInv, MemoryTypes
<1>6. successes[j] = 0
  BY DEF retryJob, MemoryInv, RowsHonest, Honest, Has
<1>7. Honest(j)'
  <2>1. successes'[j] = 0
    BY <1>6 DEF retryJob
  <2> HIDE DEF row
  <2> QED  BY <1>4, <1>5, <2>1, MemoryQueueAssumption DEF Honest, Has
<1>8. RowsHonest' /\ MemoryTypes'
  BY <1>2, <1>3, <1>5, <1>7, OneRowMoves DEF retryJob, MemoryInv, MemoryTypes
<1>9. OnePoll' /\ PollsHold'
  BY <1>1, <1>2, <1>3, PollsStay DEF retryJob, Has
<1> QED  BY <1>8, <1>9 DEF MemoryInv

\* A tick that is not turned away finds no other poll running.
LEMMA TickPreserves ==
  ASSUME MemoryInv, NEW t \in Ticks, processDueJobs(t)
  PROVE  MemoryInv'
<1>1. /\ polls' \in [Ticks -> Poll]
      /\ polls'[t] = [due |-> MemoryDue, job |-> 0, running |-> TRUE]
      /\ \A s \in Ticks \ {t} : polls'[s] = polls[s]
  BY DEF processDueJobs, MemoryInv, MemoryTypes, Poll, MemoryDue
<1>2. \A s \in Ticks : ~polls[s].running /\ polls[s].due = {} /\ polls[s].job = 0
  BY DEF processDueJobs, MemoryInv, OnePoll
<1>3. MemoryTypes'
  BY <1>1 DEF processDueJobs, MemoryInv, MemoryTypes
<1>4. OnePoll'
  BY <1>1, <1>2 DEF processDueJobs, OnePoll
<1>5. PollsHold'
  BY <1>1, <1>2 DEF processDueJobs, PollsHold, MemoryDue, Has
<1>6. RowsHonest'
  BY DEF processDueJobs, MemoryInv, RowsHonest, Honest, Has
<1> QED  BY <1>3, <1>4, <1>5, <1>6 DEF MemoryInv

\* What a step of the running poll does to the guard and to what is held.
LEMMA PollMoves ==
  ASSUME MemoryInv, NEW t \in Ticks, polls[t].running,
         NEW j \in MemoryJobs, NEW row \in MemoryRow, NEW p \in Poll,
         queue' = [queue EXCEPT ![j] = row],
         polls' = [polls EXCEPT ![t] = p], p.running, p.due \subseteq polls[t].due \ {j},
         p.job # 0 => p.job = j /\ row.status = "processing",
         UNCHANGED processing
  PROVE  OnePoll' /\ PollsHold' /\ polls' \in [Ticks -> Poll]
<1>1. /\ polls' \in [Ticks -> Poll] /\ polls'[t] = p
      /\ \A s \in Ticks \ {t} : polls'[s] = polls[s]
  BY DEF MemoryInv, MemoryTypes
<1>2. /\ queue'[j] = row /\ row # Nothing
      /\ \A i \in MemoryJobs \ {j} : queue'[i] = queue[i]
  BY MemoryQueueAssumption DEF MemoryInv, MemoryTypes
<1>3. \A s \in Ticks \ {t} : ~polls[s].running /\ polls[s].due = {} /\ polls[s].job = 0
  BY OthersHoldNothing
<1>4. OnePoll'
  BY <1>1, <1>3 DEF MemoryInv, OnePoll
<1>5. \A i \in p.due : Has(i, {"queued"})'
  BY <1>2 DEF MemoryInv, PollsHold, Has, Poll
<1>6. p.job # 0 => Has(p.job, {"processing"})'
  BY <1>2 DEF Has
<1>7. PollsHold'
  BY <1>1, <1>3, <1>5, <1>6 DEF PollsHold
<1> QED  BY <1>1, <1>4, <1>7

LEMMA RunPreserves ==
  ASSUME MemoryInv, NEW t \in Ticks, RunJob(t)
  PROVE  MemoryInv'
<1>1. PICK j \in polls[t].due :
         IF queue[j].type \in handlers
         THEN /\ queue' = [queue EXCEPT ![j].status = "processing"]
              /\ polls' = [polls EXCEPT ![t].due = @ \ {j}, ![t].job = j]
         ELSE /\ queue' = [queue EXCEPT ![j].due = FALSE]
              /\ polls' = [polls EXCEPT ![t].due = @ \ {j}]
  BY DEF RunJob
<1>2. /\ polls[t] \in Poll /\ polls[t].running /\ polls[t].job = 0
      /\ j \in MemoryJobs /\ j # 0
  BY DEF RunJob, MemoryInv, MemoryTypes, Poll, MemoryJobs
<1>3. queue[j] \in MemoryRow /\ queue[j].status = "queued"
  <2>1. Has(j, {"queued"})
    BY <1>1 DEF MemoryInv, PollsHold
  <2> QED  BY <1>2, <2>1, HasRow DEF MemoryInv
<1>4. Honest(j)
  BY <1>2 DEF MemoryInv, RowsHonest
<1>5. PICK row \in MemoryRow, p \in Poll :
        /\ queue' = [queue EXCEPT ![j] = row]
        /\ polls' = [polls EXCEPT ![t] = p]
        /\ p.running /\ p.due \subseteq polls[t].due \ {j}
        /\ p.job # 0 => p.job = j /\ row.status = "processing"
        /\ row.status \in {"queued", "processing"}
        /\ row.retryCount = queue[j].retryCount
  <2>1. CASE queue[j].type \in handlers
    <3> DEFINE row == [queue[j] EXCEPT !.status = "processing"]
               p == [polls[t] EXCEPT !.due = @ \ {j}, !.job = j]
    <3>1. /\ row \in MemoryRow /\ row.status = "processing"
          /\ row.retryCount = queue[j].retryCount
      BY <1>3 DEF MemoryRow
    <3>2. p \in Poll /\ p.running /\ p.due = polls[t].due \ {j} /\ p.job = j
      BY <1>2 DEF Poll
    <3>3. queue' = [queue EXCEPT ![j] = row] /\ polls' = [polls EXCEPT ![t] = p]
      BY <1>1, <2>1
    <3> QED  BY <3>1, <3>2, <3>3
  <2>2. CASE queue[j].type \notin handlers
    <3> DEFINE row == [queue[j] EXCEPT !.due = FALSE]
               p == [polls[t] EXCEPT !.due = @ \ {j}]
    <3>1. /\ row \in MemoryRow /\ row.status = "queued"
          /\ row.retryCount = queue[j].retryCount
      BY <1>3 DEF MemoryRow
    <3>2. p \in Poll /\ p.running /\ p.due = polls[t].due \ {j} /\ p.job = 0
      BY <1>2 DEF Poll
    <3>3. queue' = [queue EXCEPT ![j] = row] /\ polls' = [polls EXCEPT ![t] = p]
      BY <1>1, <2>2
    <3> QED  BY <3>1, <3>2, <3>3
  <2> QED  BY <2>1, <2>2
<1>6. OnePoll' /\ PollsHold' /\ polls' \in [Ticks -> Poll]
  BY <1>2, <1>5, PollMoves DEF RunJob
<1>7. queue'[j] = row /\ row # Nothing
  BY <1>2, <1>5, MemoryQueueAssumption DEF MemoryInv, MemoryTypes
<1>8. Honest(j)'
  <2>1. queue[j] # Nothing
    BY <1>3, MemoryQueueAssumption
  <2>2. /\ successes[j] = 0 /\ failures[j] = queue[j].retryCount
        /\ failures[j] < maxRetries /\ failures[j] <= maxRetries
    BY <1>3, <1>4, <2>1 DEF Honest, Has
  <2>3. /\ queue'[j].status \in {"queued", "processing"} /\ queue'[j] # Nothing
        /\ queue'[j].retryCount = queue[j].retryCount
    BY <1>5, <1>7
  <2>4. successes'[j] = successes[j] /\ failures'[j] = failures[j]
    BY DEF RunJob
  <2> QED  BY <2>2, <2>3, <2>4 DEF Honest, Has
<1>9. RowsHonest' /\ queue' \in [MemoryJobs -> MemoryRow \cup {Nothing, Forgotten}]
  BY <1>2, <1>5, <1>8, OneRowMoves DEF RunJob, MemoryInv, MemoryTypes
<1> QED  BY <1>6, <1>9 DEF RunJob, MemoryInv, MemoryTypes

LEMMA ReturnPreserves ==
  ASSUME MemoryInv, NEW t \in Ticks, NEW answer, HandlerReturns(t, answer)
  PROVE  MemoryInv'
<1> DEFINE p == [polls[t] EXCEPT !.job = 0]
<1> PICK j \in MemoryJobs : j = polls[t].job
  BY DEF HandlerReturns, MemoryInv, MemoryTypes, Poll
<1>1. j \in MemoryJobs /\ polls[t] \in Poll /\ polls[t].running
  BY DEF HandlerReturns, MemoryInv, MemoryTypes, OnePoll
<1>2. queue[j] \in MemoryRow /\ queue[j].status = "processing"
  <2>1. Has(j, {"processing"})
    BY DEF HandlerReturns, MemoryInv, PollsHold
  <2> QED  BY <1>1, <2>1, HasRow DEF MemoryInv
<1>3. /\ successes[j] = 0 /\ failures[j] = queue[j].retryCount /\ failures[j] < maxRetries
      /\ failures[j] \in Nat /\ successes[j] \in Nat
  <2>1. queue[j] # Nothing
    BY <1>2, MemoryQueueAssumption
  <2> QED  BY <1>1, <1>2, <2>1 DEF MemoryInv, MemoryTypes, RowsHonest, Honest, Has
<1>4. /\ p \in Poll /\ p.running /\ p.job = 0 /\ p.due = polls[t].due
      /\ polls' = [polls EXCEPT ![t] = p]
  BY <1>1 DEF HandlerReturns, Poll
<1>5. p.due \subseteq polls[t].due \ {j}
  BY <1>2, <1>4 DEF MemoryInv, PollsHold, Has
<1>6. PICK row \in MemoryRow :
        /\ queue' = [queue EXCEPT ![j] = row]
        /\ \/ /\ row.status = "completed"
              /\ successes' = [successes EXCEPT ![j] = @ + 1] /\ failures' = failures
           \/ /\ row.retryCount = queue[j].retryCount + 1
              /\ row.status = IF row.retryCount >= maxRetries THEN "failed" ELSE "queued"
              /\ failures' = [failures EXCEPT ![j] = @ + 1] /\ successes' = successes
  <2>1. CASE HandlerOutcome(queue[j].type, answer)
    <3> DEFINE row == [queue[j] EXCEPT !.status = "completed"]
    <3>1. row \in MemoryRow /\ row.status = "completed"
      BY <1>2 DEF MemoryRow
    <3>2. /\ queue' = [queue EXCEPT ![j] = row]
          /\ successes' = [successes EXCEPT ![j] = @ + 1] /\ failures' = failures
      BY <2>1 DEF HandlerReturns
    <3> QED  BY <3>1, <3>2
  <2>2. CASE ~HandlerOutcome(queue[j].type, answer)
    <3> DEFINE count == queue[j].retryCount + 1
               row == [queue[j] EXCEPT !.retryCount = count, !.due = FALSE,
                         !.status = IF count >= maxRetries THEN "failed" ELSE "queued"]
    <3>1. /\ row \in MemoryRow /\ row.retryCount = count
          /\ row.status = IF count >= maxRetries THEN "failed" ELSE "queued"
      <4>1. count \in Nat
        BY <1>2 DEF MemoryRow
      <4>2. (IF count >= maxRetries THEN "failed" ELSE "queued")
              \in {"queued", "processing", "completed", "failed"}
        OBVIOUS
      <4> HIDE DEF count
      <4> QED  BY <1>2, <4>1, <4>2 DEF MemoryRow
    <3>2. /\ queue' = [queue EXCEPT ![j] = row]
          /\ failures' = [failures EXCEPT ![j] = @ + 1] /\ successes' = successes
      BY <2>2 DEF HandlerReturns
    <3> QED  BY <3>1, <3>2
  <2> QED  BY <2>1, <2>2
<1>7. OnePoll' /\ PollsHold' /\ polls' \in [Ticks -> Poll]
  <2> HIDE DEF p
  <2>1. UNCHANGED processing
    BY DEF HandlerReturns
  <2> QED  BY <1>1, <1>4, <1>5, <1>6, <2>1, PollMoves
<1>8. queue'[j] = row /\ row # Nothing
  BY <1>1, <1>6, MemoryQueueAssumption DEF MemoryInv, MemoryTypes
<1>9. /\ successes' \in [MemoryJobs -> Nat] /\ failures' \in [MemoryJobs -> Nat]
      /\ \A i \in MemoryJobs \ {j} : successes'[i] = successes[i] /\ failures'[i] = failures[i]
  <2> QED  BY <1>1, <1>6 DEF MemoryInv, MemoryTypes
<1>10. Honest(j)'
  <2> HIDE DEF p
  <2>1. CASE row.status = "completed" /\ successes' = [successes EXCEPT ![j] = @ + 1]
                                      /\ failures' = failures
    <3>1. successes'[j] = 1 /\ failures'[j] = failures[j]
      BY <1>1, <1>3, <2>1 DEF MemoryInv, MemoryTypes
    <3> QED  BY <1>3, <1>8, <2>1, <3>1, MemoryQueueAssumption DEF Honest, Has
  <2>2. CASE /\ row.retryCount = queue[j].retryCount + 1
             /\ row.status = IF row.retryCount >= maxRetries THEN "failed" ELSE "queued"
             /\ failures' = [failures EXCEPT ![j] = @ + 1] /\ successes' = successes
    <3>1. successes'[j] = 0 /\ failures'[j] = row.retryCount
      BY <1>1, <1>3, <2>2 DEF MemoryInv, MemoryTypes
    <3>2. row.retryCount \in Nat /\ row.retryCount <= maxRetries
      BY <1>3, <2>2, MemoryQueueAssumption
    <3> QED  BY <1>8, <2>2, <3>1, <3>2, MemoryQueueAssumption DEF Honest, Has
  <2> QED  BY <1>6, <2>1, <2>2
<1>11. RowsHonest' /\ queue' \in [MemoryJobs -> MemoryRow \cup {Nothing, Forgotten}]
  <2> QED  BY <1>1, <1>6, <1>9, <1>10, OneRowMoves
<1> QED  BY <1>7, <1>9, <1>11 DEF HandlerReturns, MemoryInv, MemoryTypes

LEMMA EndPreserves ==
  ASSUME MemoryInv, NEW t \in Ticks, PollEnds(t)
  PROVE  MemoryInv'
<1>1. /\ polls' \in [Ticks -> Poll] /\ polls'[t] = NoPoll
      /\ \A s \in Ticks \ {t} : polls'[s] = polls[s]
  BY DEF PollEnds, MemoryInv, MemoryTypes, Poll, NoPoll
<1>2. \A s \in Ticks : ~polls'[s].running /\ polls'[s].due = {} /\ polls'[s].job = 0
  BY <1>1, OthersHoldNothing DEF PollEnds, NoPoll
<1>3. MemoryTypes'
  BY <1>1 DEF PollEnds, MemoryInv, MemoryTypes
<1>4. OnePoll' /\ PollsHold'
  BY <1>2 DEF OnePoll, PollsHold
<1>5. RowsHonest'
  BY DEF PollEnds, MemoryInv, RowsHonest, Honest, Has
<1> QED  BY <1>3, <1>4, <1>5 DEF MemoryInv

\* The cleanup takes only rows that no poll holds.
LEMMA ClearPreserves ==
  ASSUME MemoryInv, clearCompleted
  PROVE  MemoryInv'
<1>1. \A j \in MemoryJobs : queue'[j] = IF Has(j, {"completed", "failed"}) THEN Forgotten
                                         ELSE queue[j]
  BY DEF clearCompleted
<1>2. MemoryTypes'
  BY <1>1 DEF clearCompleted, MemoryInv, MemoryTypes
<1>3. OnePoll'
  BY DEF clearCompleted, MemoryInv, OnePoll
<1>4. PollsHold'
  <2>1. ASSUME NEW i \in MemoryJobs, NEW S \in {{"queued"}, {"processing"}}, Has(i, S)
        PROVE  Has(i, S)'
    BY <1>1, <2>1 DEF Has
  <2> QED  BY <2>1 DEF clearCompleted, MemoryInv, MemoryTypes, PollsHold, Poll
<1>5. RowsHonest'
  <2>1. ASSUME NEW j \in MemoryJobs PROVE Honest(j)'
    <3>1. Honest(j) /\ successes'[j] = successes[j] /\ failures'[j] = failures[j]
      BY DEF clearCompleted, MemoryInv, RowsHonest
    <3>2. CASE Has(j, {"completed", "failed"})
      <4>1. queue'[j] = Forgotten /\ Forgotten # Nothing
        BY <1>1, <3>2, MemoryQueueAssumption
      <4> QED  BY <3>1, <4>1 DEF Honest, Has, Forgotten
    <3>3. CASE ~Has(j, {"completed", "failed"})
      <4>1. queue'[j] = queue[j]
        BY <1>1, <3>3
      <4> QED  BY <3>1, <4>1 DEF Honest, Has
    <3> QED  BY <3>2, <3>3
  <2> QED  BY <2>1 DEF RowsHonest
<1> QED  BY <1>2, <1>3, <1>4, <1>5 DEF MemoryInv

\* A restart forgets the rows and whoever held them.
LEMMA RestartPreserves ==
  ASSUME MemoryInv, MemoryRestart
  PROVE  MemoryInv'
<1>1. \A j \in MemoryJobs : queue'[j] = IF queue[j] = Nothing THEN Nothing ELSE Forgotten
  BY DEF MemoryRestart
<1>2. \A t \in Ticks : polls'[t] = NoPoll
  BY DEF MemoryRestart
<1>3. MemoryTypes'
  BY DEF MemoryRestart, MemoryInv, MemoryTypes, Poll, NoPoll
<1>4. OnePoll' /\ PollsHold'
  BY <1>2 DEF OnePoll, PollsHold, NoPoll
<1>5. RowsHonest'
  <2>1. ASSUME NEW j \in MemoryJobs PROVE Honest(j)'
    <3>1. Honest(j) /\ successes'[j] = successes[j] /\ failures'[j] = failures[j]
      BY DEF MemoryRestart, MemoryInv, RowsHonest
    <3>2. \/ queue'[j] = Nothing /\ queue[j] = Nothing
          \/ queue'[j] = Forgotten /\ Forgotten # Nothing
      BY <1>1, MemoryQueueAssumption
    <3> QED  BY <3>1, <3>2 DEF Honest, Has, Forgotten
  <2> QED  BY <2>1 DEF RowsHonest
<1> QED  BY <1>3, <1>4, <1>5 DEF MemoryInv

LEMMA MemoryStays ==
  ASSUME MemoryInv, UNCHANGED <<queue, polls, processing, successes, failures>> PROVE MemoryInv'
  BY DEF MemoryInv, MemoryTypes, OnePoll, PollsHold, RowsHonest, Honest, Has

LEMMA MemoryInvNext == MemoryInv /\ [MemoryNext]_<<memoryVars, callVars>> => MemoryInv'
<1> SUFFICES ASSUME MemoryInv, [MemoryNext]_<<memoryVars, callVars>> PROVE MemoryInv'
  OBVIOUS
<1>1. ASSUME UNCHANGED <<queue, polls, processing, successes, failures>> PROVE MemoryInv'
  BY <1>1, MemoryStays
<1>2. CASE UNCHANGED <<memoryVars, callVars>>
  BY <1>1, <1>2 DEF memoryVars
<1>3. ASSUME NEW type \in JobTypes, registerHandler(type) PROVE MemoryInv'
  BY <1>1, <1>3 DEF registerHandler
<1>4. ASSUME NEW type \in JobTypes, NEW j \in MemoryJobs, MemoryEnqueue(j, type) PROVE MemoryInv'
  BY <1>4, EnqueuePreserves
<1>5. ASSUME NEW t \in Ticks, processDueJobs(t) PROVE MemoryInv'
  BY <1>5, TickPreserves
<1>6. ASSUME NEW t \in Ticks, RunJob(t) PROVE MemoryInv'
  BY <1>6, RunPreserves
<1>7. ASSUME NEW t \in Ticks, PollEnds(t) PROVE MemoryInv'
  BY <1>7, EndPreserves
<1>8. ASSUME NEW t \in Ticks, NEW answer, HandlerReturns(t, answer) PROVE MemoryInv'
  BY <1>8, ReturnPreserves
<1>9. ASSUME NEW j \in MemoryJobs, MemoryBackoffElapses(j) PROVE MemoryInv'
  BY <1>9, BackoffPreserves
<1>10. ASSUME NEW j \in MemoryJobs, retryJob(j) PROVE MemoryInv'
  BY <1>10, RetryPreserves
<1>11. CASE clearCompleted
  BY <1>11, ClearPreserves
<1>12. CASE MemoryRestart
  BY <1>12, RestartPreserves
<1> QED
  BY <1>2, <1>3, <1>4, <1>5, <1>6, <1>7, <1>8, <1>9, <1>10, <1>11, <1>12 DEF MemoryNext

LEMMA MemoryRuns == MemoryInv => MemoryJobRunsOnce
  BY DEF MemoryInv, RowsHonest, Honest, MemoryJobRunsOnce, Has

\* Work that the in-memory queue has done is not done again, and a handler
\* that fails is run maxRetries times for each time the job was asked for,
\* however ticks, retries, cleanups and restarts interleave: processDueJobs'
\* guard, retryCount and the statuses see to it.
THEOREM MemoryJobsRunOnce == MemorySpec => []MemoryJobRunsOnce
  BY MemoryRuns, MemoryInvInit, MemoryInvNext, PTL DEF MemorySpec

(***************************************************************************)
(* The other services, next to those that have users.                      *)
(***************************************************************************)

\* What keeps to the wallets is written by the service for wallets only.
LEMMA WalletsApart ==
  ASSUME [ServicesNext]_serviceVars, ~(Serves("wallets") /\ WalletsNext) PROVE UNCHANGED walletVars
<1>1. RoomNext => UNCHANGED walletVars
  BY ZenonT(60) DEF RoomNext, Upload, StoreObject, InsertFile, InsertFileRefused,
         InsertFileAnswerLost, RemoveObject, SendMessage, InsertMessage, AttachFiles, RoomDies
<1> QED  BY <1>1 DEF ServicesNext, serviceVars, tableVars

\* And the platform's own by the gateway, the queue and the builder.
LEMMA PlatformApart ==
  ASSUME [ServicesNext]_serviceVars
  PROVE  /\ (Serves("gateway") /\ GatewayNext) \/ UNCHANGED gatewayVars
         /\ (Serves("memory") /\ MemoryNext) \/ UNCHANGED memoryVars
         /\ buildDistributions \/ UNCHANGED distributionVars
  BY DEF ServicesNext, serviceVars, platformVars

\* What holds of the wallets, whether a behaviour serves them or not.
WalletsServed ==
    /\ Serves("wallets") => PrimaryInv
    /\ RowsProven
    /\ ~Serves("wallets") => \A u \in Users : Fine(u)

LEMMA WalletsServedInit == ServicesInit => WalletsServed
<1> SUFFICES ASSUME ServicesInit PROVE WalletsServed
  OBVIOUS
<1>1. PrimaryInv
  BY PrimaryInvInit DEF ServicesInit
<1>2. AllIdle
  BY DEF ServicesInit, CallsInit, AllIdle
<1>3. ASSUME NEW old \in Legacy,
             wallets = [i \in Ids |-> IF i > 1 THEN NoRow ELSE
                         [state |-> "live", user |-> old[1], address |-> old[2],
                          kind |-> "external", primary |-> TRUE, verified |-> FALSE,
                          provider |-> Nothing, pollar |-> Nothing]]
      PROVE  \A i \in Ids : Live(wallets, i) => wallets[i].primary
  BY <1>3, WalletsAssumption DEF Live, NoRow, Ids
<1>4. \A i \in Ids : Live(wallets, i) => wallets[i].primary
  BY <1>3 DEF ServicesInit, WalletsInit
<1>5. \A u \in Users : Fine(u)
  BY <1>4 DEF Fine, PrimaryOf, Of
<1> QED  BY <1>1, <1>5 DEF WalletsServed, PrimaryInv, WalletInv

LEMMA WalletsServedStep == WalletsServed /\ [ServicesNext]_serviceVars => WalletsServed'
<1> SUFFICES ASSUME WalletsServed, [ServicesNext]_serviceVars PROVE WalletsServed'
  OBVIOUS
<1>1. Serves("wallets")' <=> Serves("wallets")
  BY LoadKept DEF Proceeds, Serves
<1>2. CASE Serves("wallets")
  <2>1. [WalletsNext]_<<walletVars, accountVars, callVars>>
    BY <1>2 DEF ServicesNext, Serves, serviceVars, tableVars
  <2>2. PrimaryInv'
    BY <1>2, <2>1, PrimaryInvNext DEF WalletsServed
  <2> QED  BY <1>1, <1>2, <2>2 DEF WalletsServed, PrimaryInv, WalletInv
<1>3. CASE ~Serves("wallets")
  <2>1. UNCHANGED <<wallets, waived>>
    BY <1>3, WalletsApart DEF walletVars
  <2>2. RowsProven' /\ \A u \in Users : Fine(u)'
    BY <1>3, <2>1
    DEF WalletsServed, RowsProven, RowProven, PollarProven, Fine, Of, PrimaryOf, Live
  <2> QED  BY <1>1, <1>3, <2>2 DEF WalletsServed
<1> QED  BY <1>2, <1>3

LEMMA WalletsAlways == ServicesSpec => []WalletsServed
  BY WalletsServedInit, WalletsServedStep, PTL DEF ServicesSpec

\* Wallets: whatever a behaviour serves, however its requests overlap and
\* fail, a wallet marked verified is for a key its user holds and a Pollar
\* identity on a wallet is its user's.
THEOREM IdentitiesStayProven == ServicesSpec => []IdentityIsProven
<1>1. WalletsServed => IdentityIsProven
  BY DEF WalletsServed, RowsProven, RowProven, PollarProven, IdentityIsProven, Live, NoRow
<1> QED  BY <1>1, WalletsAlways, PTL

\* Wallets: whatever a behaviour serves, as long as requests do not overlap
\* and none fails, a user with wallets who did not unset the flag has a
\* primary one between requests.
THEOREM PrimaryStaysKept == ServicesSpec => []PrimaryKept
<1>1. WalletsServed => PrimaryKept
  <2> SUFFICES ASSUME WalletsServed, Serial, faults = 0, AllIdle, NEW u \in Users
               PROVE  Fine(u)
    BY DEF PrimaryKept, Fine
  <2>1. CASE Serves("wallets")
    <3>1. Fine(u) \/ \E r \in Reqs : Excuses(call[r], u)
      BY <2>1 DEF WalletsServed, PrimaryInv
    <3>2. \A r \in Reqs : ~Excuses(call[r], u)
      BY DEF AllIdle, Excuses, Idle
    <3> QED  BY <3>1, <3>2
  <2> QED  BY <2>1 DEF WalletsServed
<1> QED  BY <1>1, WalletsAlways, PTL

\* Wallets and agreements: whoever may open an agreement for a wallet of
\* theirs may still open it after any step of any service, unless they
\* unlink a wallet or log in with another.  A login while files are uploaded
\* or messages sent is such a step too.
THEOREM AccessStaysKept == ServicesSpec => AccessKept
<1>1. ASSUME WalletsServed, [ServicesNext]_serviceVars, NEW u \in Users, NEW a \in Addresses,
             userCanAccessAgreement(u, a, {}), auth'[u].key = auth[u].key,
             ~ \E r \in Reqs : At(r, "unlink_delete") /\ call[r].user = u
      PROVE  userCanAccessAgreement(u, a, {})'
  <2>1. CASE Serves("wallets") /\ WalletsNext
    BY <1>1, <2>1, StepKeepsAccess DEF WalletsServed, PrimaryInv
  <2>2. CASE ~(Serves("wallets") /\ WalletsNext)
    <3>1. UNCHANGED wallets
      BY <1>1, <2>2, WalletsApart DEF walletVars
    <3>2. resolveUserWallets(u)' = resolveUserWallets(u)
      BY <1>1, <3>1 DEF resolveUserWallets, Of, Live
    <3> QED  BY <1>1, <3>2 DEF userCanAccessAgreement
  <2> QED  BY <2>1, <2>2
<1>2. WalletsServed /\ [ServicesNext]_serviceVars =>
        [\A u \in Users, a \in Addresses :
           userCanAccessAgreement(u, a, {}) =>
             \/ userCanAccessAgreement(u, a, {})'
             \/ auth'[u].key # auth[u].key
             \/ \E r \in Reqs : At(r, "unlink_delete") /\ call[r].user = u]_<<wallets, auth>>
  BY <1>1
<1> QED  BY <1>2, WalletsAlways, PTL DEF ServicesSpec, AccessKept

\* What holds of the escrow, whether a behaviour serves the gateway or not.
GatewayServed ==
    /\ Serves("gateway") => ResolutionInv /\ ReservedInv
    /\ EscrowSound(escrow)
    /\ EvidenceAfterFunding
    /\ "resolve" \in raw \/ Reserved(escrow)
    /\ ~Serves("gateway") => xdrs = {}

LEMMA GatewayServedInit == ServicesInit => GatewayServed
  BY GatewayInvInit, ResolutionInvInit, ReservedInvInit
  DEF ServicesInit, GatewayServed, GatewayInv, ReservedInv, GatewayInit

LEMMA GatewayServedStep == GatewayServed /\ [ServicesNext]_serviceVars => GatewayServed'
<1> SUFFICES ASSUME GatewayServed, [ServicesNext]_serviceVars PROVE GatewayServed'
  OBVIOUS
<1>1. Serves("gateway")' <=> Serves("gateway")
  BY LoadKept DEF Proceeds, Serves
<1>2. CASE Serves("gateway")
  <2>1. [GatewayNext]_<<gatewayVars, callVars>>
    BY <1>2 DEF ServicesNext, Serves, serviceVars, platformVars
  <2>2. ResolutionInv' /\ ReservedInv'
    BY <1>2, <2>1, ResolutionInvNext, ReservedInvNext DEF GatewayServed
  <2> QED  BY <1>1, <1>2, <2>2 DEF GatewayServed, GatewayInv, ReservedInv
<1>3. CASE ~Serves("gateway")
  <2>1. UNCHANGED <<escrow, xdrs, raw>>
    BY <1>3, PlatformApart DEF gatewayVars
  <2>2. EscrowSound(escrow)' /\ EvidenceAfterFunding' /\ ("resolve" \in raw \/ Reserved(escrow))'
    BY <2>1 DEF GatewayServed, EscrowSound, EvidenceAfterFunding, Reserved, Unsettled, Settled
  <2> QED  BY <1>1, <1>3, <2>1, <2>2 DEF GatewayServed
<1> QED  BY <1>2, <1>3

LEMMA GatewayAlways == ServicesSpec => []GatewayServed
  BY GatewayServedInit, GatewayServedStep, PTL DEF ServicesSpec

\* Escrow gateway: whatever a behaviour serves, evidence reaches the contract
\* only of an escrow that was funded, unless prepare built it.
THEOREM EvidenceStaysFunded == ServicesSpec => []EvidenceAfterFunding
<1>1. GatewayServed => EvidenceAfterFunding
  BY DEF GatewayServed
<1> QED  BY <1>1, GatewayAlways, PTL

\* Escrow gateway: whatever a behaviour serves, once the price is deposited
\* the contract holds the amounts of the milestones that are not settled, as
\* long as no resolution built by prepare is sent.
THEOREM OthersFundsStayKept == ServicesSpec => []OthersKeepTheirFunds
<1>1. GatewayServed => OthersKeepTheirFunds
  BY ReservedKeeps DEF GatewayServed
<1> QED  BY <1>1, GatewayAlways, PTL

\* Escrow gateway: whatever a behaviour serves, a resolution handed out for
\* signing is one the contract would have accepted as the escrow was read.
\* Only the gateway hands out anything.
THEOREM ResolutionsStayAcceptable == ServicesSpec => ResolutionIsAcceptable
<1>1. ASSUME GatewayServed, [ServicesNext]_serviceVars, xdrs' # xdrs, NEW r \in Reqs,
             At(r, "relay"), call[r].op = "resolve", call[r].known, call[r].read.balance > 0
      PROVE  MayResolve(call[r].read, XdrOf(call[r]))
  <2>1. Serves("gateway")
    BY <1>1, PlatformApart DEF gatewayVars
  <2> QED  BY <1>1, <2>1, AcceptableAsRead DEF GatewayServed
<1>2. GatewayServed /\ [ServicesNext]_serviceVars =>
        [\A r \in Reqs :
           /\ At(r, "relay") /\ call[r].op = "resolve" /\ call'[r] = Idle
           /\ call[r].known /\ call[r].read.balance > 0
           => MayResolve(call[r].read, XdrOf(call[r]))]_xdrs
  BY <1>1
<1> QED  BY <1>2, GatewayAlways, PTL DEF ServicesSpec, ResolutionIsAcceptable

\* The queue's invariant is about the queue alone.
LEMMA MemoryInvStep == MemoryInv /\ [ServicesNext]_serviceVars => MemoryInv'
<1> SUFFICES ASSUME MemoryInv, [ServicesNext]_serviceVars PROVE MemoryInv'
  OBVIOUS
<1>1. CASE MemoryNext
  BY <1>1, MemoryInvNext
<1>2. CASE UNCHANGED memoryVars
  BY <1>2, MemoryStays DEF memoryVars
<1> QED  BY <1>1, <1>2, PlatformApart

\* In-memory queue: whatever a behaviour serves, work that was done is not
\* done again, and a handler that fails is run maxRetries times for each time
\* the job was asked for.
THEOREM MemoryJobsRunOnceInServices == ServicesSpec => []MemoryJobRunsOnce
<1>1. ServicesInit => MemoryInv
  BY MemoryInvInit DEF ServicesInit
<1> QED  BY <1>1, MemoryInvStep, MemoryRuns, PTL DEF ServicesSpec

LEMMA DistributionsAlways == ServicesSpec => []DistributionsInv
<1>1. ServicesInit => DistributionsInv
  BY DistributionsInvInit DEF ServicesInit
<1>2. DistributionsInv /\ [ServicesNext]_serviceVars => DistributionsInv'
  BY PlatformApart, DistributionsInvNext
<1> QED  BY <1>1, <1>2, PTL DEF ServicesSpec

\* Dispute distributions: for every balance, any number of allocations and any
\* percentages assertAllocations lets through, buildDistributions builds a
\* payload, and it pays out the balance to the stroop: the check at its end
\* never fires.
THEOREM PayoutsAreExact == ServicesSpec => []ValidIsBuiltExactly
  BY DistributionsAlways, ValidIsExact, PTL

\* Dispute distributions: for every balance, any percentages and however the
\* doubles round, nobody is paid a whole stroop and the noise less than their
\* share, at most one party is paid more than it and the noise, by less than a
\* stroop for each other party, and a party that was given nothing is paid only
\* when nobody's share comes to a stroop.
THEOREM PayoutsAreFair == ServicesSpec => []NobodyIsShortchanged
  BY DistributionsAlways, NobodyLoses, PTL
====
