---- MODULE WalletsProofs ----
(***************************************************************************)
(* Proofs about Wallets for any users, keys, rows and overlapping calls.   *)
(***************************************************************************)
EXTENDS Wallets, TLAPS, FiniteSetTheorems

\* What the login writes is the user's own.
AuthProven ==
    /\ auth \in [Users -> AuthUser]
    /\ \A u \in Users : /\ auth[u].key # Nothing => KeyHolder[auth[u].key] = u
                        /\ auth[u].pollar # Nothing => PollarUser[auth[u].pollar] = u

\* What a row, or a call about to insert one, claims has been proved.
PollarProven(w) ==
    w.pollar # Nothing => /\ w.provider = "pollar"
                          /\ PollarUser[w.pollar] = w.user
                          /\ KeyHolder[w.address] = w.user

RowProven(w) ==
    /\ w.verified /\ w.kind # "custodial" => KeyHolder[w.address] = w.user
    /\ PollarProven(w)

RowsProven ==
    /\ wallets \in [Ids -> WalletRow \cup {NoRow}]
    /\ \A i \in Ids : wallets[i] # NoRow => RowProven(wallets[i])

LinkProven(c) ==
    /\ c.user \in Users /\ c.address \in Addresses /\ c.primary \in BOOLEAN
    /\ c.kind \in WalletKinds
    /\ c.provider \in Providers \cup {Nothing}
    /\ c.pollar \in PollarIds \cup {Nothing}
    /\ c.kind # "custodial" => KeyHolder[c.address] = c.user
    /\ PollarProven(c)

\* What a handler holds at each of its awaits.
WalletSound(c) ==
    /\ c.pc \in {"link_count", "link_prove"} => c.user \in Users /\ c.address \in Addresses
    /\ c.pc = "link_prove" => c.primary \in BOOLEAN
    /\ c.pc = "link_insert" => LinkProven(c)
    /\ c.pc = "link_provider" => c.provider \in Providers \cup {Nothing}
    /\ c.pc = "primary_unset" =>
         c = [pc |-> "primary_unset", user |-> c.user, id |-> c.id, primary |-> c.primary]
    /\ c.pc \in {"primary_unset", "primary_write"} => c.id \in Ids /\ c.primary \in BOOLEAN
    /\ c.pc = "unlink_promote" => c.id \in Ids
    /\ c.pc = "verify_write" =>
         /\ c.id \in Ids /\ wallets[c.id] # NoRow
         /\ KeyHolder[wallets[c.id].address] = wallets[c.id].user

CallsSound ==
    /\ load \in Loads
    /\ call = [r \in Reqs |-> call[r]]
    /\ \A r \in Reqs : WalletSound(call[r])

WalletInv == AuthProven /\ RowsProven /\ CallsSound

\* Rows are never given to another user or another address.
RowsKept ==
    \A i \in Ids : wallets[i] # NoRow =>
        /\ wallets'[i] # NoRow
        /\ wallets'[i].user = wallets[i].user
        /\ wallets'[i].address = wallets[i].address

LEMMA SoundKept ==
  ASSUME RowsKept, NEW c, WalletSound(c)
  PROVE  WalletSound(c)'
  BY DEF RowsKept, WalletSound, LinkProven, PollarProven

LEMMA IdleWalletSound == WalletSound(Idle) /\ WalletSound(Idle)'
  BY DEF WalletSound, Idle

\* One handler goes on and the others stay where they are.
LEMMA WalletHandlerMoves ==
  ASSUME WalletInv, RowsKept, NEW r \in Reqs, NEW c,
         call' = [call EXCEPT ![r] = c], WalletSound(c)', load' = load
  PROVE  CallsSound'
<1>1. /\ call' = [s \in Reqs |-> call'[s]]
      /\ call'[r] = c
      /\ \A s \in Reqs \ {r} : call'[s] = call[s]
  BY DEF WalletInv, CallsSound
<1>2. ASSUME NEW s \in Reqs PROVE WalletSound(call[s])'
  <2>1. CASE s = r
    BY <1>1, <2>1 DEF WalletSound, LinkProven, PollarProven
  <2>2. CASE s # r
    <3>1. PICK d : d = call[s]
      OBVIOUS
    <3>2. WalletSound(d)
      BY <3>1 DEF WalletInv, CallsSound
    <3>3. WalletSound(d)'
      BY <3>2, SoundKept
    <3>4. call'[s] = d
      BY <1>1, <2>2, <3>1
    <3> QED  BY <3>3, <3>4 DEF WalletSound, LinkProven, PollarProven
  <2> QED  BY <2>1, <2>2
<1> QED  BY <1>1, <1>2 DEF WalletInv, CallsSound

LEMMA WalletInvInit ==
  ASSUME CallsInit, WalletsInit, NEW enterprises, NEW admins, AccountsInit(enterprises, admins)
  PROVE  WalletInv
<1>1. AuthProven
  BY AccountsAssumption DEF AccountsInit, AuthProven, AuthUser
<1>2. RowsProven
  <2>1. PICK old \in Legacy :
          wallets = [i \in Ids |-> IF i > 1 THEN NoRow ELSE
                      [state |-> "live", user |-> old[1], address |-> old[2], kind |-> "external",
                       primary |-> TRUE, verified |-> FALSE, provider |-> Nothing,
                       pollar |-> Nothing]]
    BY DEF WalletsInit
  <2>2. old[1] \in Users /\ old[2] \in Addresses
    BY WalletsAssumption
  <2> QED  BY <2>1, <2>2 DEF RowsProven, RowProven, PollarProven, WalletRow, WalletKinds, NoRow
<1>3. CallsSound
  BY IdleWalletSound DEF CallsInit, CallsSound
<1> QED  BY <1>1, <1>2, <1>3 DEF WalletInv

\* Handlers that only read: the tables stay.
LEMMA ReadPreserves ==
  ASSUME WalletInv, UNCHANGED <<wallets, auth>>, NEW r \in Reqs, NEW c,
         call' = [call EXCEPT ![r] = c], WalletSound(c), load' = load
  PROVE  WalletInv'
<1>1. RowsKept
  BY DEF RowsKept
<1>2. AuthProven' /\ RowsProven'
  BY DEF WalletInv, AuthProven, RowsProven, RowProven, PollarProven
<1>3. WalletSound(c)'
  BY <1>1, SoundKept
<1> QED  BY <1>1, <1>2, <1>3, WalletHandlerMoves DEF WalletInv

\* Nothing is said of a handler that is over.
LEMMA OverPreserves ==
  ASSUME WalletInv, UNCHANGED <<wallets, auth>>, NEW r \in Reqs,
         call' = [call EXCEPT ![r] = Idle], load' = load
  PROVE  WalletInv'
  BY ReadPreserves, IdleWalletSound

\* One row is rewritten without a change of what it claims.
LEMMA RowRewritten ==
  ASSUME WalletInv, NEW i \in Ids, NEW w \in WalletRow, RowProven(w),
         wallets[i] # NoRow => w.user = wallets[i].user /\ w.address = wallets[i].address,
         wallets' \in {wallets, [wallets EXCEPT ![i] = w]}
  PROVE  RowsProven' /\ RowsKept
<1>1. w # NoRow
  BY DEF WalletRow, NoRow
<1>2. /\ wallets' \in [Ids -> WalletRow \cup {NoRow}]
      /\ \A j \in Ids : wallets'[j] = wallets[j] \/ (j = i /\ wallets'[j] = w)
  BY DEF WalletInv, RowsProven
<1>3. RowsKept
  BY <1>1, <1>2 DEF RowsKept
<1>4. \A j \in Ids : wallets'[j] # NoRow => RowProven(wallets'[j])
  BY <1>2 DEF WalletInv, RowsProven
<1> QED  BY <1>2, <1>3, <1>4 DEF RowsProven, RowProven, PollarProven

LEMMA LinkReadPreserves ==
  ASSUME WalletInv, NEW r \in Reqs, NEW u \in Users, NEW a \in Addresses, LinkRead(r, u, a)
  PROVE  WalletInv'
<1>1. PICK c : c = [pc |-> "link_count", user |-> u, address |-> a]
  OBVIOUS
<1>2. WalletSound(c)
  BY <1>1 DEF WalletSound
<1> QED  BY <1>1, <1>2, ReadPreserves DEF LinkRead, Begin, walletVars, accountVars

LEMMA LinkCountPreserves ==
  ASSUME WalletInv, NEW r \in Reqs, LinkCount(r)
  PROVE  WalletInv'
<1>1. PICK c : c = [pc |-> "link_prove", user |-> call[r].user, address |-> call[r].address,
                    primary |-> (Of(wallets, call[r].user) = {})]
  OBVIOUS
<1>2. call[r].user \in Users /\ call[r].address \in Addresses
  BY DEF LinkCount, At, WalletInv, CallsSound, WalletSound
<1>3. WalletSound(c)
  BY <1>1, <1>2 DEF WalletSound
<1> QED  BY <1>1, <1>3, ReadPreserves DEF LinkCount, Await, walletVars, accountVars

LEMMA LinkCountFailsPreserves ==
  ASSUME WalletInv, NEW r \in Reqs, LinkCountFails(r)
  PROVE  WalletInv'
<1>1. PICK c : c = [pc |-> "link_prove", user |-> call[r].user, address |-> call[r].address,
                    primary |-> FALSE]
  OBVIOUS
<1>2. call[r].user \in Users /\ call[r].address \in Addresses
  BY DEF LinkCountFails, At, WalletInv, CallsSound, WalletSound
<1>3. WalletSound(c)
  BY <1>1, <1>2 DEF WalletSound
<1> QED  BY <1>1, <1>3, ReadPreserves DEF LinkCountFails, walletVars, accountVars

\* Each branch of linkWallet proves what the row is going to claim.
LEMMA BranchesProve ==
  ASSUME WalletInv, NEW u \in Users, NEW a \in Addresses, NEW kind \in WalletKinds,
         NEW provider \in Providers \cup {Nothing}, NEW pollar \in PollarIds \cup {Nothing},
         kind = "custodial" => ProvenCustodial(u, a, provider, pollar),
         kind = "accesly" => ProvenAccesly(u, a, provider, pollar),
         kind = "external" => ProvenExternal(u, a, provider, pollar)
  PROVE  /\ kind # "custodial" => KeyHolder[a] = u
         /\ pollar # Nothing => provider = "pollar" /\ PollarUser[pollar] = u /\ KeyHolder[a] = u
<1>1. ASSUME assertPollarOwnership(u, a, pollar)
      PROVE  KeyHolder[a] = u /\ (pollar # Nothing => PollarUser[pollar] = u)
  <2>1. a # Nothing
    BY AccountsAssumption
  <2> QED  BY <1>1, <2>1 DEF assertPollarOwnership, WalletInv, AuthProven
<1>2. CASE kind = "custodial"
  BY <1>1, <1>2, AccountsAssumption DEF ProvenCustodial, Providers
<1>3. CASE kind = "accesly"
  <2>1. a # Nothing
    BY AccountsAssumption
  <2> QED  BY <1>3, <2>1 DEF ProvenAccesly, WalletInv, AuthProven
<1>4. CASE kind = "external"
  <2>1. ProvenExternal(u, a, provider, pollar)
    BY <1>4
  <2>2. ASSUME NEW m \in SignedMessages, ChallengeProves(m, u, a) PROVE KeyHolder[a] = u
    BY <2>2 DEF SignedMessages, ChallengeProves
  <2> QED  BY <1>1, <1>4, <2>1, <2>2 DEF ProvenExternal
<1> QED  BY <1>2, <1>3, <1>4 DEF WalletKinds

LEMMA LinkProvePreserves ==
  ASSUME WalletInv, NEW r \in Reqs, LinkProve(r)
  PROVE  WalletInv'
<1> DEFINE u == call[r].user
           a == call[r].address
<1>1. u \in Users /\ a \in Addresses /\ call[r].primary \in BOOLEAN
  BY DEF LinkProve, At, WalletInv, CallsSound, WalletSound
<1>2. PICK kind \in WalletKinds, provider \in Providers \cup {Nothing},
           pollar \in PollarIds \cup {Nothing} :
         /\ kind = "custodial" => ProvenCustodial(u, a, provider, pollar)
         /\ kind = "accesly" => ProvenAccesly(u, a, provider, pollar)
         /\ kind = "external" => ProvenExternal(u, a, provider, pollar)
         /\ Await(r, [pc |-> "link_insert", user |-> u, address |-> a, kind |-> kind,
                      primary |-> call[r].primary, pollar |-> pollar,
                      provider |-> IF kind = "accesly" THEN "accesly" ELSE provider])
  BY DEF LinkProve
<1>3. PICK c : c = [pc |-> "link_insert", user |-> u, address |-> a, kind |-> kind,
                    primary |-> call[r].primary, pollar |-> pollar,
                    provider |-> IF kind = "accesly" THEN "accesly" ELSE provider]
  OBVIOUS
<1>4. /\ kind # "custodial" => KeyHolder[a] = u
      /\ pollar # Nothing => provider = "pollar" /\ PollarUser[pollar] = u /\ KeyHolder[a] = u
  BY ZenonT(60), <1>1, <1>2, BranchesProve
<1>5. kind = "accesly" => pollar = Nothing
  BY <1>2 DEF ProvenAccesly
<1>6. c.provider \in Providers \cup {Nothing}
  BY <1>2, <1>3 DEF Providers
<1>7. WalletSound(c)
  BY <1>1, <1>2, <1>3, <1>4, <1>5, <1>6 DEF WalletSound, LinkProven, PollarProven
<1> QED  BY <1>2, <1>3, <1>7, ReadPreserves DEF LinkProve, Await, walletVars, accountVars

\* Handlers that write rows and no accounts.
LEMMA WritePreserves ==
  ASSUME WalletInv, RowsProven', RowsKept, UNCHANGED auth, NEW r \in Reqs, NEW c,
         call' = [call EXCEPT ![r] = c], WalletSound(c), load' = load
  PROVE  WalletInv'
<1>1. WalletSound(c)'
  BY SoundKept
<1>2. AuthProven'
  BY DEF WalletInv, AuthProven
<1> QED  BY <1>1, <1>2, WalletHandlerMoves DEF WalletInv

\* The row that is stored claims at most what the call has proved.
LEMMA StoredProven ==
  ASSUME NEW c, LinkProven(c)
  PROVE  Stored(c) \in WalletRow /\ RowProven(Stored(c))
  BY DEF LinkProven, Stored, WalletRow, WalletKinds, RowProven, PollarProven

LEMMA LinkInsertPreserves ==
  ASSUME WalletInv, NEW r \in Reqs, LinkInsert(r)
  PROVE  WalletInv'
<1>1. PICK i \in Ids :
         /\ wallets[i] = NoRow
         /\ WriteWallets([wallets EXCEPT ![i] = Stored(call[r])])
         /\ \/ Await(r, [pc |-> "link_provider", user |-> call[r].user,
                         provider |-> call[r].provider])
            \/ Done(r)
  BY DEF LinkInsert
<1>2. LinkProven(call[r])
  BY DEF LinkInsert, At, WalletInv, CallsSound, WalletSound
<1>3. PICK w : w = Stored(call[r])
  OBVIOUS
<1>4. w \in WalletRow /\ RowProven(w)
  BY <1>2, <1>3, StoredProven
<1>5. RowsProven' /\ RowsKept
  <2>1. wallets' \in {wallets, [wallets EXCEPT ![i] = w]}
    BY <1>1, <1>3 DEF WriteWallets
  <2> QED  BY <1>1, <1>4, <2>1, RowRewritten
<1>6. CASE Await(r, [pc |-> "link_provider", user |-> call[r].user,
                     provider |-> call[r].provider])
  <2>1. PICK c : c = [pc |-> "link_provider", user |-> call[r].user,
                      provider |-> call[r].provider]
    OBVIOUS
  <2>2. WalletSound(c)
    BY <1>2, <2>1 DEF WalletSound, LinkProven
  <2> QED  BY <1>5, <1>6, <2>1, <2>2, WritePreserves DEF LinkInsert, Await, accountVars
<1>7. CASE Done(r)
  BY <1>5, <1>7, WritePreserves, IdleWalletSound DEF LinkInsert, Done, Await, accountVars
<1> QED  BY <1>1, <1>6, <1>7

LEMMA LinkProviderPreserves ==
  ASSUME WalletInv, NEW r \in Reqs, LinkProvider(r)
  PROVE  WalletInv'
<1>1. call[r].provider \in Providers \cup {Nothing}
  BY DEF LinkProvider, At, WalletInv, CallsSound, WalletSound
<1>2. AuthProven'
  BY ZenonT(60), <1>1 DEF LinkProvider, WalletInv, AuthProven, AuthUser
<1>3. RowsProven' /\ RowsKept
  BY DEF LinkProvider, walletVars, WalletInv, RowsProven, RowProven, PollarProven, RowsKept
<1> QED  BY <1>2, <1>3, WalletHandlerMoves, IdleWalletSound DEF LinkProvider, Done, Await, WalletInv

LEMMA UpdateReadPreserves ==
  ASSUME WalletInv, NEW r \in Reqs, NEW u, NEW i \in Ids, NEW primary \in BOOLEAN,
         UpdateWalletRead(r, u, i, primary)
  PROVE  WalletInv'
<1>1. PICK c : c = [pc |-> IF primary THEN "primary_unset" ELSE "primary_write",
                    user |-> u, id |-> i, primary |-> primary]
  OBVIOUS
<1>2. WalletSound(c)
  BY <1>1 DEF WalletSound
<1> QED  BY <1>1, <1>2, ReadPreserves DEF UpdateWalletRead, Begin, walletVars, accountVars

\* What the two ways on from the unset hold.
LEMMA UnsetSound ==
  ASSUME WalletInv, NEW r \in Reqs, At(r, "primary_unset"),
         NEW c, c = [call[r] EXCEPT !.pc = "primary_write"]
  PROVE  WalletSound(c)
<1>1. /\ call[r] = [pc |-> "primary_unset", user |-> call[r].user, id |-> call[r].id,
                    primary |-> call[r].primary]
      /\ call[r].id \in Ids /\ call[r].primary \in BOOLEAN
  BY DEF At, WalletInv, CallsSound, WalletSound
<1>2. c.pc = "primary_write" /\ c.id = call[r].id /\ c.primary = call[r].primary
  BY <1>1
<1> QED  BY <1>1, <1>2 DEF WalletSound

LEMMA UpdateUnsetPreserves ==
  ASSUME WalletInv, NEW r \in Reqs, UpdateWalletUnset(r)
  PROVE  WalletInv'
<1>1. \A i \in Ids : wallets'[i] = IF i \in Of(wallets, call[r].user) \ {call[r].id}
                                   THEN [wallets[i] EXCEPT !.primary = FALSE]
                                   ELSE wallets[i]
  BY DEF UpdateWalletUnset
<1>2. ASSUME NEW i \in Ids
      PROVE  /\ wallets'[i] = NoRow <=> wallets[i] = NoRow
             /\ wallets[i] # NoRow =>
                  /\ wallets'[i] \in WalletRow
                  /\ \A f \in {"user", "address", "kind", "verified", "provider", "pollar"} :
                       wallets'[i][f] = wallets[i][f]
  <2>1. wallets[i] \in WalletRow \cup {NoRow}
    BY DEF WalletInv, RowsProven
  <2>2. CASE i \in Of(wallets, call[r].user) \ {call[r].id}
    <3>1. wallets[i] \in WalletRow
      BY <2>1, <2>2 DEF Of, Live, NoRow
    <3>2. PICK row \in WalletRow : row = wallets[i]
      BY <3>1
    <3>3. wallets'[i] = [row EXCEPT !.primary = FALSE]
      BY <1>1, <2>2, <3>2
    <3>4. PICK new : new = wallets'[i] /\ new = [row EXCEPT !.primary = FALSE]
      BY <3>3
    <3>5. new \in WalletRow
      BY <3>4 DEF WalletRow
    <3>6. NoRow \notin WalletRow
      BY DEF WalletRow, NoRow
    <3>7. \A f \in {"user", "address", "kind", "verified", "provider", "pollar"} : new[f] = row[f]
      BY <3>4 DEF WalletRow
    <3> QED  BY <3>2, <3>4, <3>5, <3>6, <3>7
  <2>3. CASE i \notin Of(wallets, call[r].user) \ {call[r].id}
    BY <1>1, <2>1, <2>3
  <2> QED  BY <2>2, <2>3
<1>3. RowsKept
  BY <1>2 DEF RowsKept
<1>4. RowsProven'
  <2>1. wallets' \in [Ids -> WalletRow \cup {NoRow}]
    <3>1. wallets' = [i \in Ids |-> wallets'[i]]
      BY DEF UpdateWalletUnset
    <3> QED  BY <1>2, <3>1
  <2>2. ASSUME NEW i \in Ids, wallets'[i] # NoRow PROVE RowProven(wallets[i])'
    <3>1. wallets[i] # NoRow /\ RowProven(wallets[i])
      BY <1>2, <2>2 DEF WalletInv, RowsProven
    <3> QED  BY <1>2, <3>1 DEF RowProven, PollarProven
  <2> QED  BY <2>1, <2>2 DEF RowsProven
<1>5. PICK c : c = [call[r] EXCEPT !.pc = "primary_write"]
  OBVIOUS
<1>6. WalletSound(c)
  BY <1>5, UnsetSound DEF UpdateWalletUnset
<1> QED  BY <1>3, <1>4, <1>5, <1>6, WritePreserves DEF UpdateWalletUnset, Await, accountVars

LEMMA UnsetFailsPreserves ==
  ASSUME WalletInv, NEW r \in Reqs, UpdateWalletUnsetFails(r)
  PROVE  WalletInv'
<1>1. PICK c : c = [call[r] EXCEPT !.pc = "primary_write"]
  OBVIOUS
<1>2. WalletSound(c)
  BY <1>1, UnsetSound DEF UpdateWalletUnsetFails
<1> QED  BY <1>1, <1>2, ReadPreserves DEF UpdateWalletUnsetFails, walletVars, accountVars

LEMMA UpdateWritePreserves ==
  ASSUME WalletInv, NEW r \in Reqs, UpdateWalletWrite(r)
  PROVE  WalletInv'
<1>1. PICK i : i = call[r].id
  OBVIOUS
<1>2. i \in Ids /\ call[r].primary \in BOOLEAN
  BY <1>1 DEF UpdateWalletWrite, At, WalletInv, CallsSound, WalletSound
<1>3. RowsProven' /\ RowsKept
  <2>1. CASE ~Live(wallets, i)
    BY <1>1, <2>1 DEF UpdateWalletWrite, WalletInv, RowsProven, RowProven, PollarProven, RowsKept
  <2>2. CASE Live(wallets, i)
    <3>1. PICK w : w = [wallets[i] EXCEPT !.primary = call[r].primary]
      OBVIOUS
    <3>2. wallets[i] \in WalletRow /\ wallets[i] # NoRow
      BY <1>2, <2>2 DEF WalletInv, RowsProven, Live, NoRow
    <3>3. w \in WalletRow /\ w.user = wallets[i].user /\ w.address = wallets[i].address
      BY <1>2, <3>1, <3>2 DEF WalletRow
    <3>4. RowProven(w)
      <4>1. RowProven(wallets[i])
        BY <1>2, <3>2 DEF WalletInv, RowsProven
      <4> QED  BY <3>1, <3>2, <4>1 DEF RowProven, PollarProven, WalletRow
    <3>5. wallets' \in {wallets, [wallets EXCEPT ![i] = w]}
      BY <1>1, <2>2, <3>1 DEF UpdateWalletWrite, WriteWallets
    <3> QED  BY <1>2, <3>3, <3>4, <3>5, RowRewritten
  <2> QED  BY <2>1, <2>2
<1> QED  BY <1>3, WritePreserves, IdleWalletSound DEF UpdateWalletWrite, Done, Await, accountVars

LEMMA UnlinkReadPreserves ==
  ASSUME WalletInv, NEW r \in Reqs, NEW u, NEW i, UnlinkRead(r, u, i)
  PROVE  WalletInv'
<1>1. PICK c : c = [pc |-> "unlink_delete", user |-> u, id |-> i, primary |-> wallets[i].primary]
  OBVIOUS
<1>2. WalletSound(c)
  BY <1>1 DEF WalletSound
<1> QED  BY <1>1, <1>2, ReadPreserves DEF UnlinkRead, Begin, walletVars, accountVars

LEMMA UnlinkDeletePreserves ==
  ASSUME WalletInv, NEW r \in Reqs, UnlinkDelete(r)
  PROVE  WalletInv'
<1>1. PICK i : i = call[r].id
  OBVIOUS
<1>2. RowsProven' /\ RowsKept
  <2>1. CASE i \notin Of(wallets, call[r].user)
    BY <1>1, <2>1 DEF UnlinkDelete, WalletInv, RowsProven, RowProven, PollarProven, RowsKept
  <2>2. CASE i \in Of(wallets, call[r].user)
    <3>1. PICK w : w = [wallets[i] EXCEPT !.state = "deleted"]
      OBVIOUS
    <3>2. i \in Ids /\ wallets[i] \in WalletRow /\ wallets[i] # NoRow
      BY <2>2 DEF WalletInv, RowsProven, Of, Live, NoRow
    <3>3. w \in WalletRow /\ w.user = wallets[i].user /\ w.address = wallets[i].address
      BY <3>1, <3>2 DEF WalletRow
    <3>4. RowProven(w)
      <4>1. RowProven(wallets[i])
        BY <3>2 DEF WalletInv, RowsProven
      <4> QED  BY <3>1, <3>2, <4>1 DEF RowProven, PollarProven, WalletRow
    <3>5. wallets' = [wallets EXCEPT ![i] = w]
      BY <1>1, <2>2, <3>1 DEF UnlinkDelete
    <3> QED  BY <3>2, <3>3, <3>4, <3>5, RowRewritten
  <2> QED  BY <2>1, <2>2
<1>3. CASE call[r].primary
  <2>1. PICK c : c = [pc |-> "unlink_pick", user |-> call[r].user]
    OBVIOUS
  <2>2. WalletSound(c)
    BY <2>1 DEF WalletSound
  <2> QED  BY <1>2, <1>3, <2>1, <2>2, WritePreserves DEF UnlinkDelete, Await, accountVars
<1>4. CASE ~call[r].primary
  BY <1>2, <1>4, WritePreserves, IdleWalletSound DEF UnlinkDelete, Done, Await, accountVars
<1> QED  BY <1>3, <1>4

LEMMA UnlinkPickPreserves ==
  ASSUME WalletInv, NEW r \in Reqs, UnlinkPick(r)
  PROVE  WalletInv'
<1>1. CASE Of(wallets, call[r].user) = {}
  BY <1>1, OverPreserves DEF UnlinkPick, Done, Await, walletVars, accountVars
<1>2. CASE Of(wallets, call[r].user) # {}
  <2>1. PICK i \in Of(wallets, call[r].user) : Await(r, [pc |-> "unlink_promote", id |-> i])
    BY <1>2 DEF UnlinkPick
  <2>2. PICK c : c = [pc |-> "unlink_promote", id |-> i]
    OBVIOUS
  <2>3. WalletSound(c)
    BY <2>2 DEF WalletSound, Of
  <2> QED  BY <2>1, <2>2, <2>3, ReadPreserves DEF UnlinkPick, Await, walletVars, accountVars
<1> QED  BY <1>1, <1>2

LEMMA UnlinkPromotePreserves ==
  ASSUME WalletInv, NEW r \in Reqs, UnlinkPromote(r)
  PROVE  WalletInv'
<1>1. PICK i : i = call[r].id
  OBVIOUS
<1>2. i \in Ids
  BY <1>1 DEF UnlinkPromote, At, WalletInv, CallsSound, WalletSound
<1>3. RowsProven' /\ RowsKept
  <2>1. CASE ~Live(wallets, i)
    BY <1>1, <2>1 DEF UnlinkPromote, WalletInv, RowsProven, RowProven, PollarProven, RowsKept
  <2>2. CASE Live(wallets, i)
    <3>1. PICK w : w = [wallets[i] EXCEPT !.primary = TRUE]
      OBVIOUS
    <3>2. wallets[i] \in WalletRow /\ wallets[i] # NoRow
      BY <1>2, <2>2 DEF WalletInv, RowsProven, Live, NoRow
    <3>3. w \in WalletRow /\ w.user = wallets[i].user /\ w.address = wallets[i].address
      BY <3>1, <3>2 DEF WalletRow
    <3>4. RowProven(w)
      <4>1. RowProven(wallets[i])
        BY <1>2, <3>2 DEF WalletInv, RowsProven
      <4> QED  BY <3>1, <3>2, <4>1 DEF RowProven, PollarProven, WalletRow
    <3>5. wallets' \in {wallets, [wallets EXCEPT ![i] = w]}
      BY <1>1, <2>2, <3>1 DEF UnlinkPromote, WriteWallets
    <3> QED  BY <1>2, <3>3, <3>4, <3>5, RowRewritten
  <2> QED  BY <2>1, <2>2
<1> QED  BY <1>3, WritePreserves, IdleWalletSound DEF UnlinkPromote, Done, Await, accountVars

\* The challenge was signed with the key of the row's own address.
LEMMA VerifyReadPreserves ==
  ASSUME WalletInv, NEW r \in Reqs, NEW u, NEW i \in Ids, NEW a, VerifyRead(r, u, i, a)
  PROVE  WalletInv'
<1>1. PICK c : c = [pc |-> "verify_write", id |-> i]
  OBVIOUS
<1>2. wallets[i] # NoRow /\ wallets[i].user = u /\ wallets[i].address = a
  BY DEF VerifyRead, Of, Live, NoRow
<1>3. KeyHolder[a] = u
  BY DEF VerifyRead, SignedMessages, ChallengeProves
<1>4. WalletSound(c)
  BY <1>1, <1>2, <1>3 DEF WalletSound
<1> QED  BY <1>1, <1>4, ReadPreserves DEF VerifyRead, Begin, walletVars, accountVars

LEMMA VerifyWritePreserves ==
  ASSUME WalletInv, NEW r \in Reqs, VerifyWrite(r)
  PROVE  WalletInv'
<1>1. PICK i : i = call[r].id
  OBVIOUS
<1>2. /\ i \in Ids /\ wallets[i] # NoRow
      /\ KeyHolder[wallets[i].address] = wallets[i].user
  BY <1>1 DEF VerifyWrite, At, WalletInv, CallsSound, WalletSound
<1>3. RowsProven' /\ RowsKept
  <2>1. PICK w : w = [wallets[i] EXCEPT !.verified = TRUE]
    OBVIOUS
  <2>2. wallets[i] \in WalletRow
    BY <1>2 DEF WalletInv, RowsProven
  <2>3. w \in WalletRow /\ w.user = wallets[i].user /\ w.address = wallets[i].address
    BY <2>1, <2>2 DEF WalletRow
  <2>4. RowProven(w)
    <3>1. RowProven(wallets[i])
      BY <1>2 DEF WalletInv, RowsProven
    <3> QED  BY <1>2, <2>1, <2>2, <2>3, <3>1 DEF RowProven, PollarProven, WalletRow
  <2>5. wallets' \in {wallets, [wallets EXCEPT ![i] = w]}
    BY <1>1, <2>1 DEF VerifyWrite
  <2> QED  BY <1>2, <2>3, <2>4, <2>5, RowRewritten
<1> QED  BY <1>3, WritePreserves, IdleWalletSound DEF VerifyWrite, Done, Await, accountVars

LEMMA LoginPreserves ==
  ASSUME WalletInv, NEW u \in Users, NEW a \in Addresses, NEW p \in PollarIds \cup {Nothing},
         Login(u, a, p), UNCHANGED walletVars
  PROVE  WalletInv'
<1>1. PICK b : b = [auth[u] EXCEPT !.key = a, !.pollar = p]
  OBVIOUS
<1>2. auth \in [Users -> AuthUser] /\ auth' = [auth EXCEPT ![u] = b]
  BY <1>1 DEF Login, WalletInv, AuthProven
<1>3. b \in AuthUser /\ b.key = a /\ b.pollar = p
  BY <1>1, <1>2 DEF AuthUser
<1>4. KeyHolder[a] = u /\ (p # Nothing => PollarUser[p] = u)
  BY DEF Login
<1>5. AuthProven'
  <2>1. auth' \in [Users -> AuthUser]
    BY <1>2, <1>3
  <2>2. ASSUME NEW v \in Users
        PROVE  /\ auth'[v].key # Nothing => KeyHolder[auth'[v].key] = v
               /\ auth'[v].pollar # Nothing => PollarUser[auth'[v].pollar] = v
    <3>1. CASE v = u
      BY <1>2, <1>3, <1>4, <3>1
    <3>2. CASE v # u
      BY <1>2, <3>2 DEF WalletInv, AuthProven
    <3> QED  BY <3>1, <3>2
  <2> QED  BY <2>1, <2>2 DEF AuthProven
<1>6. RowsProven' /\ CallsSound'
  BY DEF Login, walletVars, callVars, WalletInv, RowsProven, RowProven, PollarProven, CallsSound,
         WalletSound, LinkProven
<1> QED  BY <1>5, <1>6 DEF WalletInv

LEMMA WalletInvNext == WalletInv /\ [WalletsNext]_<<walletVars, accountVars, callVars>> => WalletInv'
<1> SUFFICES ASSUME WalletInv, [WalletsNext]_<<walletVars, accountVars, callVars>>
             PROVE  WalletInv'
  OBVIOUS
<1>1. ASSUME UNCHANGED <<wallets, auth, callVars>> PROVE WalletInv'
  BY <1>1 DEF callVars, WalletInv, AuthProven, RowsProven, RowProven, PollarProven, CallsSound,
              WalletSound, LinkProven
<1>2. CASE UNCHANGED <<walletVars, accountVars, callVars>>
  BY <1>1, <1>2 DEF walletVars, accountVars
<1>3. load.users \subseteq Users /\ ActiveAddresses \subseteq Addresses
  BY CallsAssumption DEF WalletInv, CallsSound, ActiveAddresses
<1>4. ASSUME NEW u \in load.users, NEW a \in ActiveAddresses, generateVerificationChallenge(u, a)
      PROVE  WalletInv'
  BY <1>1, <1>4 DEF generateVerificationChallenge, accountVars
<1>5. ASSUME NEW u \in load.users, NEW a \in ActiveAddresses, NEW p \in PollarIds \cup {Nothing},
             Login(u, a, p), UNCHANGED walletVars
      PROVE  WalletInv'
  BY <1>3, <1>5, LoginPreserves
<1>6. ASSUME NEW u \in load.users, NEW a \in ActiveAddresses, NEW r \in Reqs, LinkRead(r, u, a)
      PROVE  WalletInv'
  BY <1>3, <1>6, LinkReadPreserves
<1>7. ASSUME NEW u \in load.users, NEW a \in ActiveAddresses, NEW r \in Reqs, NEW i \in Ids,
             VerifyRead(r, u, i, a)
      PROVE  WalletInv'
  BY <1>7, VerifyReadPreserves
<1>8. CASE ChallengeExpires
  BY <1>1, <1>8 DEF ChallengeExpires, accountVars
<1>9. ASSUME NEW r \in Reqs, NEW u \in load.users, NEW i \in Ids, NEW primary \in BOOLEAN,
             UpdateWalletRead(r, u, i, primary)
      PROVE  WalletInv'
  BY <1>9, UpdateReadPreserves
<1>10. ASSUME NEW r \in Reqs, NEW u \in load.users, NEW i \in Ids, UnlinkRead(r, u, i)
       PROVE  WalletInv'
  BY <1>10, UnlinkReadPreserves
<1>11. ASSUME NEW r \in Reqs,
              \/ LinkCount(r) \/ LinkCountFails(r)
              \/ LinkProve(r) \/ LinkInsert(r) \/ LinkProvider(r)
              \/ UpdateWalletUnset(r) \/ UpdateWalletUnsetFails(r) \/ UpdateWalletWrite(r)
       PROVE  WalletInv'
  BY <1>11, LinkCountPreserves, LinkCountFailsPreserves, LinkProvePreserves,
     LinkInsertPreserves, LinkProviderPreserves,
     UpdateUnsetPreserves, UnsetFailsPreserves, UpdateWritePreserves
<1>12. ASSUME NEW r \in Reqs,
              UnlinkDelete(r) \/ UnlinkPick(r) \/ UnlinkPromote(r) \/ VerifyWrite(r)
       PROVE  WalletInv'
  BY <1>12, UnlinkDeletePreserves, UnlinkPickPreserves, UnlinkPromotePreserves,
     VerifyWritePreserves
<1>13. ASSUME NEW r \in Reqs, LinkRefused(r) \/ WalletDies(r) PROVE WalletInv'
  BY <1>13, OverPreserves DEF LinkRefused, WalletDies, Dies, Done, Await, walletVars, accountVars
<1> QED
  BY <1>2, <1>4, <1>5, <1>6, <1>7, <1>8, <1>9, <1>10, <1>11, <1>12, <1>13 DEF WalletsNext

\* However logins, challenges, links, updates and unlinks of any users
\* overlap and fail, a verified wallet is its user's, and a Pollar identity
\* on a wallet is its user's: what linkWallet's branches and verifyWallet
\* check stays true until their writes.
THEOREM IdentitiesAreProven == WalletsSpec => []IdentityIsProven
<1>1. WalletInv => IdentityIsProven
  BY DEF WalletInv, RowsProven, RowProven, PollarProven, IdentityIsProven, Live, NoRow
<1>2. /\ CallsInit
      /\ \E enterprises, admins \in SUBSET Users : AccountsInit(enterprises, admins)
      /\ WalletsInit
      => WalletInv
  BY WalletInvInit
<1> QED  BY <1>1, <1>2, WalletInvNext, PTL DEF WalletsSpec

(***************************************************************************)
(* Access.  Only unlinkWallet takes a row from its user.                   *)
(***************************************************************************)

RowsStay(u) ==
    \A i \in Of(wallets, u) :
        /\ Live(wallets', i) /\ wallets'[i].user = u
        /\ wallets'[i].address = wallets[i].address

\* One row changes, and not in what it lets its user act as.
LEMMA RowStays ==
  ASSUME WalletInv, NEW i \in Ids, NEW w, wallets' \in {wallets, [wallets EXCEPT ![i] = w]},
         Live(wallets, i) =>
           /\ w.state = "live" /\ w.user = wallets[i].user /\ w.address = wallets[i].address,
         NEW u
  PROVE  RowsStay(u)
<1>1. \A j \in Ids : wallets'[j] = wallets[j] \/ (j = i /\ wallets'[j] = w)
  BY DEF WalletInv, RowsProven
<1> QED  BY <1>1 DEF RowsStay, Of, Live

\* A row that the step leaves as it was says the same of its user.
LEMMA LiveRow ==
  ASSUME WalletInv, NEW i \in Ids, Live(wallets, i)
  PROVE  wallets[i] \in WalletRow /\ wallets[i] # NoRow
  BY DEF WalletInv, RowsProven, Live, NoRow

LEMMA InsertStays ==
  ASSUME WalletInv, NEW r \in Reqs, LinkInsert(r), NEW u PROVE RowsStay(u)
<1>1. PICK i \in Ids : wallets[i] = NoRow /\ WriteWallets([wallets EXCEPT ![i] = Stored(call[r])])
  BY DEF LinkInsert
<1>2. PICK w : w = Stored(call[r])
  OBVIOUS
<1>3. ~Live(wallets, i) /\ wallets' \in {wallets, [wallets EXCEPT ![i] = w]}
  BY <1>1, <1>2 DEF Live, NoRow, WriteWallets
<1> QED  BY <1>3, RowStays

LEMMA UnsetStays ==
  ASSUME WalletInv, NEW r \in Reqs, UpdateWalletUnset(r), NEW u PROVE RowsStay(u)
<1>1. ASSUME NEW i \in Of(wallets, u)
      PROVE  /\ Live(wallets', i) /\ wallets'[i].user = u
             /\ wallets'[i].address = wallets[i].address
  <2>1. i \in Ids /\ Live(wallets, i) /\ wallets[i].user = u
    BY DEF Of
  <2>2. wallets[i] \in WalletRow
    BY <2>1, LiveRow
  <2>3. wallets'[i] \in {wallets[i], [wallets[i] EXCEPT !.primary = FALSE]}
    BY <2>1 DEF UpdateWalletUnset
  <2>4. wallets'[i].state = wallets[i].state /\ wallets'[i].user = wallets[i].user
        /\ wallets'[i].address = wallets[i].address
    BY <2>2, <2>3 DEF WalletRow
  <2> QED  BY <2>1, <2>4 DEF Live
<1> QED  BY <1>1 DEF RowsStay

LEMMA FlagStays ==
  ASSUME WalletInv, NEW r \in Reqs, UpdateWalletWrite(r) \/ UnlinkPromote(r), NEW u
  PROVE  RowsStay(u)
<1>1. PICK i : i = call[r].id
  OBVIOUS
<1>2. i \in Ids
  BY <1>1 DEF UpdateWalletWrite, UnlinkPromote, At, WalletInv, CallsSound, WalletSound
<1>3. CASE ~Live(wallets, i)
  BY <1>1, <1>3 DEF UpdateWalletWrite, UnlinkPromote, RowsStay, Of
<1>4. CASE Live(wallets, i)
  <2>1. PICK flag : wallets' \in {wallets, [wallets EXCEPT ![i].primary = flag]}
    BY <1>1, <1>4 DEF UpdateWalletWrite, UnlinkPromote, WriteWallets
  <2>2. PICK w : w = [wallets[i] EXCEPT !.primary = flag]
    OBVIOUS
  <2>3. wallets' \in {wallets, [wallets EXCEPT ![i] = w]}
    BY <2>1, <2>2
  <2>4. w.state = "live" /\ w.user = wallets[i].user /\ w.address = wallets[i].address
    BY <1>2, <1>4, <2>2, LiveRow DEF WalletRow, Live
  <2> QED  BY <1>2, <2>3, <2>4, RowStays
<1> QED  BY <1>3, <1>4

LEMMA VerifiedStays ==
  ASSUME WalletInv, NEW r \in Reqs, VerifyWrite(r), NEW u PROVE RowsStay(u)
<1>1. PICK i : i = call[r].id
  OBVIOUS
<1>2. i \in Ids
  BY <1>1 DEF VerifyWrite, At, WalletInv, CallsSound, WalletSound
<1>3. CASE ~Live(wallets, i)
  BY <1>1, <1>3 DEF VerifyWrite, RowsStay, Of
<1>4. CASE Live(wallets, i)
  <2>1. PICK w : w = [wallets[i] EXCEPT !.verified = TRUE]
    OBVIOUS
  <2>2. wallets' \in {wallets, [wallets EXCEPT ![i] = w]}
    BY <1>1, <2>1 DEF VerifyWrite
  <2>3. w.state = "live" /\ w.user = wallets[i].user /\ w.address = wallets[i].address
    BY <1>2, <1>4, <2>1, LiveRow DEF WalletRow, Live
  <2> QED  BY <1>2, <2>2, <2>3, RowStays
<1> QED  BY <1>3, <1>4

\* unlinkWallet deletes by id and user: the rows of others stay.
LEMMA DeleteStays ==
  ASSUME WalletInv, NEW r \in Reqs, UnlinkDelete(r), NEW u, u # call[r].user PROVE RowsStay(u)
<1>1. PICK i : i = call[r].id
  OBVIOUS
<1>2. CASE i \notin Of(wallets, call[r].user)
  BY <1>1, <1>2 DEF UnlinkDelete, RowsStay, Of
<1>3. CASE i \in Of(wallets, call[r].user)
  <2>1. wallets' = [wallets EXCEPT ![i].state = "deleted"]
    BY <1>1, <1>3 DEF UnlinkDelete
  <2>2. \A j \in Of(wallets, u) : wallets'[j] = wallets[j]
    BY <1>3, <2>1 DEF Of, WalletInv, RowsProven
  <2> QED  BY <2>2 DEF RowsStay, Of, Live
<1> QED  BY <1>2, <1>3

LEMMA NextStays ==
  ASSUME WalletInv, WalletsNext, NEW u, ~ \E r \in Reqs : At(r, "unlink_delete") /\ call[r].user = u
  PROVE  RowsStay(u)
<1>1. ASSUME UNCHANGED wallets PROVE RowsStay(u)
  BY <1>1 DEF RowsStay, Of, Live
<1>2. ASSUME NEW v \in load.users, NEW a \in ActiveAddresses,
             \/ generateVerificationChallenge(v, a)
             \/ \E p \in PollarIds \cup {Nothing} : Login(v, a, p) /\ UNCHANGED walletVars
             \/ \E r \in Reqs : LinkRead(r, v, a)
             \/ \E r \in Reqs, i \in Ids : VerifyRead(r, v, i, a)
      PROVE  RowsStay(u)
  BY <1>1, <1>2 DEF generateVerificationChallenge, LinkRead, VerifyRead, walletVars
<1>3. CASE ChallengeExpires
  BY <1>1, <1>3 DEF ChallengeExpires
<1>4. ASSUME NEW r \in Reqs, NEW v \in load.users, NEW i \in Ids,
             \/ \E primary \in BOOLEAN : UpdateWalletRead(r, v, i, primary)
             \/ UnlinkRead(r, v, i)
      PROVE  RowsStay(u)
  BY <1>1, <1>4 DEF UpdateWalletRead, UnlinkRead, walletVars
<1>5. ASSUME NEW r \in Reqs,
             \/ LinkCount(r) \/ LinkProve(r) \/ LinkRefused(r) \/ LinkProvider(r)
             \/ LinkCountFails(r) \/ UpdateWalletUnsetFails(r) \/ UnlinkPick(r) \/ WalletDies(r)
      PROVE  RowsStay(u)
  BY <1>1, <1>5 DEF LinkCount, LinkCountFails, LinkProve, LinkRefused, LinkProvider, UpdateWalletUnsetFails,
                    UnlinkPick, WalletDies, walletVars
<1>6. ASSUME NEW r \in Reqs, UnlinkDelete(r) PROVE RowsStay(u)
  BY <1>6, DeleteStays DEF UnlinkDelete
<1> QED  BY <1>2, <1>3, <1>4, <1>5, <1>6, InsertStays, UnsetStays, FlagStays, VerifiedStays
         DEF WalletsNext

\* A step of the wallets takes no agreement from its user.
LEMMA StepKeepsAccess ==
  ASSUME WalletInv, WalletsNext, NEW u \in Users, NEW a \in Addresses,
         userCanAccessAgreement(u, a, {}), auth'[u].key = auth[u].key,
         ~ \E r \in Reqs : At(r, "unlink_delete") /\ call[r].user = u
  PROVE  userCanAccessAgreement(u, a, {})'
<1>1. RowsStay(u)
  BY NextStays
<1>2. resolveUserWallets(u) \subseteq resolveUserWallets(u)'
  <2>1. ASSUME NEW b \in resolveUserWallets(u) PROVE b \in resolveUserWallets(u)'
    <3>1. CASE b \in {auth[u].key} \ {Nothing}
      BY <3>1 DEF resolveUserWallets
    <3>2. CASE b \notin {auth[u].key} \ {Nothing}
      <4>1. PICK i \in Of(wallets, u) : b = wallets[i].address
        BY <2>1, <3>2 DEF resolveUserWallets
      <4>2. i \in Of(wallets, u)' /\ b = wallets'[i].address
        BY <1>1, <4>1 DEF RowsStay, Of
      <4> QED  BY <4>2 DEF resolveUserWallets
    <3> QED  BY <3>1, <3>2
  <2> QED  BY <2>1
<1> QED  BY <1>2 DEF userCanAccessAgreement

\* An agreement created with one of the user's wallets stays accessible while
\* wallets are linked, updated, verified or fail to be, in any order and by
\* any number of overlapping requests: only the user's own unlink or another
\* login ends it.
THEOREM AccessIsKept == WalletsSpec => AccessKept
<1>1. WalletInv /\ [WalletsNext]_<<walletVars, accountVars, callVars>> =>
        [\A u \in Users, a \in Addresses :
           userCanAccessAgreement(u, a, {}) =>
             \/ userCanAccessAgreement(u, a, {})'
             \/ auth'[u].key # auth[u].key
             \/ \E r \in Reqs : At(r, "unlink_delete") /\ call[r].user = u]_<<wallets, auth>>
  BY StepKeepsAccess DEF walletVars, accountVars
<1>2. /\ CallsInit
      /\ \E enterprises, admins \in SUBSET Users : AccountsInit(enterprises, admins)
      /\ WalletsInit
      => WalletInv
  BY WalletInvInit
<1> QED  BY <1>1, <1>2, WalletInvNext, PTL DEF WalletsSpec, AccessKept

(***************************************************************************)
(* The primary wallet, when requests come one at a time and none fails.    *)
(***************************************************************************)

\* The user has a wallet to act with, none at all, or asked for this.
Fine(u) == Of(wallets, u) = {} \/ PrimaryOf(u) # {} \/ u \in waived

\* The handler that waits with c is about to give u a primary wallet.
Excuses(c, u) ==
    \/ c.pc = "primary_write" /\ c.primary /\ c.user = u
    \/ c.pc = "unlink_pick" /\ c.user = u
    \/ c.pc = "unlink_promote" /\ wallets[c.id].user = u

\* What was read is still so, and the flag can be set.
Holds(c) ==
    /\ c.pc \in {"link_prove", "link_insert"} => (c.primary <=> Of(wallets, c.user) = {})
    /\ c.pc \in {"primary_unset", "primary_write", "unlink_delete"} => c.id \in Of(wallets, c.user)
    /\ c.pc = "primary_unset" => c.primary
    /\ c.pc = "primary_write" /\ c.primary => PrimaryOf(c.user) \subseteq {c.id}
    /\ c.pc = "unlink_delete" => (c.primary <=> wallets[c.id].primary)
    /\ c.pc = "unlink_pick" => PrimaryOf(c.user) = {}
    /\ c.pc = "unlink_promote" =>
         c.id \in Ids /\ Live(wallets, c.id) /\ PrimaryOf(wallets[c.id].user) = {}

\* A handler that is neither of these knows nothing and excuses nobody.
Reaching == {"link_prove", "link_insert", "primary_unset", "primary_write", "unlink_delete",
             "unlink_pick", "unlink_promote"}

PrimaryInv ==
    /\ WalletInv
    /\ faults \in Nat
    /\ \A r \in Reqs : call[r] # Idle => r \in load.slots
    /\ Accepted(wallets)
    /\ Serial /\ faults = 0 =>
         /\ \A r \in Reqs : Holds(call[r])
         /\ \A u \in Users : Fine(u) \/ \E r \in Reqs : Excuses(call[r], u)

\* With one slot there is one handler.
LEMMA Alone ==
  ASSUME PrimaryInv, Serial, NEW r \in load.slots, NEW s \in Reqs \ {r} PROVE call[s] = Idle
<1>1. load.slots \subseteq Reqs /\ IsFiniteSet(load.slots)
  BY CallsAssumption, FS_Subset DEF PrimaryInv, WalletInv, CallsSound
<1>2. SUFFICES ASSUME s \in load.slots PROVE FALSE
  BY DEF PrimaryInv
<1>3. {r, s} \subseteq load.slots /\ IsFiniteSet({r, s})
  BY <1>1, <1>2, FS_Subset
<1>4. Cardinality({r, s}) = 2
  <2>1. IsFiniteSet({r}) /\ Cardinality({r}) = 1
    BY FS_Singleton
  <2>2. {r} \cup {s} = {r, s} /\ s \notin {r}
    OBVIOUS
  <2>3. Cardinality({r} \cup {s}) = Cardinality({r}) + 1
    BY ZenonT(60), <2>1, <2>2, FS_AddElement
  <2> QED  BY <2>1, <2>2, <2>3
<1>5. Cardinality({r, s}) <= Cardinality(load.slots)
  BY <1>1, <1>3, FS_Subset
<1>6. Cardinality(load.slots) \in Nat /\ Cardinality(load.slots) <= 1
  BY <1>1, FS_CardinalityType DEF Serial
<1> QED  BY <1>4, <1>5, <1>6

LEMMA PrimaryHasSlot == ASSUME PrimaryInv, NEW r \in Reqs, call[r].pc # "idle" PROVE r \in load.slots
  BY DEF PrimaryInv, Idle

\* What is known before the step of the only handler.
LEMMA Before ==
  ASSUME PrimaryInv, Serial, faults = 0, NEW r \in Reqs, r \in load.slots
  PROVE  Holds(call[r]) /\ \A u \in Users : Fine(u) \/ Excuses(call[r], u)
<1>1. \A s \in Reqs \ {r} : call[s] = Idle
  BY Alone
<1>2. \A u : ~Excuses(Idle, u)
  BY DEF Excuses, Idle
<1> QED  BY <1>1, <1>2 DEF PrimaryInv

\* The step of a handler that goes on in c.
PrimaryProceeds(r, c) ==
    /\ r \in load.slots
    /\ call' = [call EXCEPT ![r] = c]
    /\ load' = load
    /\ faults' \in Nat /\ faults' >= faults
    /\ WalletInv'

LEMMA PrimaryStep ==
  ASSUME PrimaryInv, NEW r \in Reqs, NEW c, PrimaryProceeds(r, c), Accepted(wallets)',
         ASSUME Serial, faults' = 0, faults = 0
         PROVE  Holds(c)' /\ \A u \in Users : Fine(u)' \/ Excuses(c, u)'
  PROVE  PrimaryInv'
<1>1. call'[r] = c /\ \A s \in Reqs \ {r} : call'[s] = call[s]
  BY DEF PrimaryProceeds, PrimaryInv, WalletInv, CallsSound
<1>2. \A s \in Reqs : call'[s] # Idle => s \in load'.slots
  BY <1>1 DEF PrimaryProceeds, PrimaryInv
<1>3. ASSUME Serial', faults' = 0
      PROVE  /\ \A s \in Reqs : Holds(call[s])'
             /\ \A u \in Users : Fine(u)' \/ \E s \in Reqs : Excuses(call[s], u)'
  <2>1. Serial /\ faults = 0
    BY <1>3 DEF Serial, PrimaryProceeds, PrimaryInv
  <2>2. Holds(c)' /\ \A u \in Users : Fine(u)' \/ Excuses(c, u)'
    BY <1>3, <2>1
  <2>3. \A s \in Reqs \ {r} : call'[s] = Idle
    BY <1>1, <2>1, Alone DEF PrimaryProceeds
  <2>4. Holds(Idle)'
    BY DEF Holds, Idle
  <2>5. ASSUME NEW s \in Reqs PROVE Holds(call[s])'
    <3>1. CASE s = r
      BY <1>1, <2>2, <3>1 DEF Holds
    <3>2. CASE s # r
      BY <2>3, <2>4, <3>2 DEF Holds
    <3> QED  BY <3>1, <3>2
  <2>6. ASSUME NEW u \in Users, Excuses(c, u)' PROVE \E s \in Reqs : Excuses(call[s], u)'
    BY <1>1, <2>6 DEF Excuses
  <2> QED  BY <2>2, <2>5, <2>6
<1> QED  BY <1>2, <1>3 DEF PrimaryInv, PrimaryProceeds

\* The step of a handler that only reads, or ends.
LEMMA PrimaryReads ==
  ASSUME PrimaryInv, NEW r \in Reqs, NEW c, PrimaryProceeds(r, c), UNCHANGED <<wallets, waived>>,
         ASSUME Serial, faults' = 0, faults = 0
         PROVE  Holds(c) /\ \A u \in Users : Excuses(call[r], u) => Fine(u) \/ Excuses(c, u)
  PROVE  PrimaryInv'
<1>1. Accepted(wallets)'
  BY DEF PrimaryInv, Accepted, Live
<1>2. ASSUME Serial, faults' = 0, faults = 0
      PROVE  Holds(c)' /\ \A u \in Users : Fine(u)' \/ Excuses(c, u)'
  <2>1. Holds(c) /\ \A u \in Users : Fine(u) \/ Excuses(c, u)
    BY <1>2, Before DEF PrimaryProceeds
  <2>2. Holds(c)'
    BY <2>1 DEF Holds, Of, PrimaryOf, Live
  <2>3. ASSUME NEW u \in Users PROVE Fine(u)' \/ Excuses(c, u)'
    BY <2>1 DEF Fine, Excuses, Of, PrimaryOf, Live
  <2> QED  BY <2>2, <2>3
<1> QED  BY <1>1, <1>2, PrimaryStep

LEMMA PastReaching == ASSUME NEW c, c.pc \notin Reaching PROVE Holds(c) /\ \A u : ~Excuses(c, u)
  BY DEF Holds, Excuses, Reaching

\* A step that fails, or of a handler on its way to nothing of this.
LEMMA PrimaryEnds ==
  ASSUME PrimaryInv, NEW r \in Reqs, NEW c, PrimaryProceeds(r, c), UNCHANGED <<wallets, waived>>,
         \/ faults' > faults
         \/ c.pc \notin Reaching /\ call[r].pc \notin {"primary_write", "unlink_pick", "unlink_promote"}
  PROVE  PrimaryInv'
<1>1. ASSUME Serial, faults' = 0, faults = 0
      PROVE  Holds(c) /\ \A u \in Users : Excuses(call[r], u) => Fine(u) \/ Excuses(c, u)
  BY <1>1, PastReaching DEF Excuses
<1> QED  BY <1>1, PrimaryReads


LEMMA AwaitProceeds ==
  ASSUME PrimaryInv, WalletInv', NEW r \in Reqs, call[r].pc # "idle", NEW c, Await(r, c)
  PROVE  PrimaryProceeds(r, c)
  BY PrimaryHasSlot DEF PrimaryProceeds, Await, PrimaryInv

LEMMA BeginProceeds ==
  ASSUME PrimaryInv, WalletInv', NEW r \in Reqs, NEW c, Begin(r, c)
  PROVE  PrimaryProceeds(r, c)
  BY DEF PrimaryProceeds, Begin, PrimaryInv

\* linkWallet up to its insert: whether the user has wallets is read once.
LEMMA LinkReads ==
  ASSUME PrimaryInv, WalletInv', NEW r \in Reqs,
         \/ \E u, a : LinkRead(r, u, a)
         \/ LinkCount(r) \/ LinkProve(r) \/ LinkRefused(r) \/ LinkProvider(r)
  PROVE  PrimaryInv'
<1>1. UNCHANGED <<wallets, waived>>
  BY DEF LinkRead, LinkCount, LinkProve, LinkRefused, LinkProvider, walletVars
<1>2. ASSUME NEW u, NEW a, LinkRead(r, u, a) PROVE PrimaryInv'
  <2>1. PICK c : c = [pc |-> "link_count", user |-> u, address |-> a]
    OBVIOUS
  <2>2. Begin(r, c) /\ call[r] = Idle
    BY <1>2, <2>1 DEF LinkRead, Begin
  <2> QED  BY <1>1, <2>1, <2>2, BeginProceeds, PrimaryEnds DEF Reaching, Idle
<1>3. CASE LinkCount(r)
  <2>1. PICK c : c = [pc |-> "link_prove", user |-> call[r].user, address |-> call[r].address,
                      primary |-> (Of(wallets, call[r].user) = {})]
    OBVIOUS
  <2>2. Await(r, c) /\ call[r].pc = "link_count"
    BY <1>3, <2>1 DEF LinkCount, At
  <2>3. Holds(c) /\ \A u : ~Excuses(call[r], u)
    <3>1. c.pc = "link_prove" /\ (c.primary <=> Of(wallets, c.user) = {})
      BY <2>1
    <3> QED  BY <2>2, <3>1 DEF Holds, Excuses
  <2> QED  BY <1>1, <2>2, <2>3, AwaitProceeds, PrimaryReads
<1>4. CASE LinkProve(r)
  <2>1. PICK c : /\ c.pc = "link_insert" /\ c.user = call[r].user /\ c.primary = call[r].primary
                 /\ Await(r, c)
    BY <1>4 DEF LinkProve
  <2>2. call[r].pc = "link_prove"
    BY <1>4 DEF LinkProve, At
  <2>3. PrimaryProceeds(r, c)
    BY <2>1, <2>2, AwaitProceeds
  <2>4. ASSUME Serial, faults' = 0, faults = 0
        PROVE  Holds(c) /\ \A u \in Users : Excuses(call[r], u) => Fine(u) \/ Excuses(c, u)
    <3>1. Holds(call[r])
      BY <2>3, <2>4, Before DEF PrimaryProceeds
    <3> QED  BY <2>1, <2>2, <3>1 DEF Holds, Excuses
  <2> QED  BY <1>1, <2>3, <2>4, PrimaryReads
<1>5. CASE LinkRefused(r) \/ LinkProvider(r)
  <2>1. Await(r, Idle) /\ call[r].pc \in {"link_prove", "link_provider"}
    BY <1>5 DEF LinkRefused, LinkProvider, At, Done
  <2> QED  BY <1>1, <2>1, AwaitProceeds, PrimaryEnds DEF Reaching, Idle
<1> QED  BY <1>2, <1>3, <1>4, <1>5

\* The reads of updateWallet, verifyWallet and unlinkWallet.
LEMMA OtherReads ==
  ASSUME PrimaryInv, WalletInv', NEW r \in Reqs, NEW u, NEW i \in Ids,
         \/ \E primary \in BOOLEAN : UpdateWalletRead(r, u, i, primary)
         \/ \E a : VerifyRead(r, u, i, a)
         \/ UnlinkRead(r, u, i)
  PROVE  PrimaryInv'
<1>1. UNCHANGED <<wallets, waived>> /\ i \in Of(wallets, u)
  BY DEF UpdateWalletRead, VerifyRead, UnlinkRead, walletVars
<1>2. ASSUME NEW c, Begin(r, c), Holds(c) PROVE PrimaryInv'
  <2>1. \A v : ~Excuses(call[r], v)
    BY <1>2 DEF Begin, Excuses, Idle
  <2> QED  BY <1>1, <1>2, <2>1, BeginProceeds, PrimaryReads
<1>3. ASSUME NEW primary \in BOOLEAN, UpdateWalletRead(r, u, i, primary) PROVE PrimaryInv'
  <2>1. PICK c : c = [pc |-> IF primary THEN "primary_unset" ELSE "primary_write",
                      user |-> u, id |-> i, primary |-> primary]
    OBVIOUS
  <2>2. Holds(c)
    <3>1. c.id = i /\ c.user = u /\ c.primary = primary
      BY <2>1
    <3>2. c.pc = IF primary THEN "primary_unset" ELSE "primary_write"
      BY <2>1
    <3> QED  BY <1>1, <3>1, <3>2 DEF Holds
  <2> QED  BY <1>2, <1>3, <2>1, <2>2 DEF UpdateWalletRead
<1>4. ASSUME NEW a, VerifyRead(r, u, i, a) PROVE PrimaryInv'
  <2>1. PICK c : c = [pc |-> "verify_write", id |-> i]
    OBVIOUS
  <2>2. Holds(c)
    BY <2>1, PastReaching DEF Reaching
  <2> QED  BY <1>2, <1>4, <2>1, <2>2 DEF VerifyRead
<1>5. CASE UnlinkRead(r, u, i)
  <2>1. PICK c : c = [pc |-> "unlink_delete", user |-> u, id |-> i,
                      primary |-> wallets[i].primary]
    OBVIOUS
  <2>2. Holds(c)
    <3>1. c.pc = "unlink_delete" /\ c.id = i /\ c.user = u /\ c.primary = wallets[i].primary
      BY <2>1
    <3> QED  BY <1>1, <3>1 DEF Holds
  <2> QED  BY <1>2, <1>5, <2>1, <2>2 DEF UnlinkRead
<1> QED  BY <1>3, <1>4, <1>5

\* unlinkWallet looks for a wallet to hand the flag to: one is there, or the
\* user has none left.
LEMMA PickReads == ASSUME PrimaryInv, WalletInv', NEW r \in Reqs, UnlinkPick(r) PROVE PrimaryInv'
<1>1. UNCHANGED <<wallets, waived>> /\ call[r].pc = "unlink_pick"
  BY DEF UnlinkPick, At, walletVars
<1>2. CASE Of(wallets, call[r].user) = {}
  <2>1. Await(r, Idle)
    BY <1>2 DEF UnlinkPick, Done
  <2>2. \A u \in Users : Excuses(call[r], u) => Fine(u)
    BY <1>1, <1>2 DEF Excuses, Fine
  <2>3. Holds(Idle)
    BY DEF Holds, Idle
  <2> QED  BY <1>1, <2>1, <2>2, <2>3, AwaitProceeds, PrimaryReads
<1>3. CASE Of(wallets, call[r].user) # {}
  <2>1. PICK i \in Of(wallets, call[r].user) : Await(r, [pc |-> "unlink_promote", id |-> i])
    BY <1>3 DEF UnlinkPick
  <2>2. PICK c : c = [pc |-> "unlink_promote", id |-> i]
    OBVIOUS
  <2>3. PrimaryProceeds(r, c)
    BY <1>1, <2>1, <2>2, AwaitProceeds
  <2>4. i \in Ids /\ Live(wallets, i) /\ wallets[i].user = call[r].user
    BY DEF Of
  <2>5. ASSUME Serial, faults' = 0, faults = 0
        PROVE  Holds(c) /\ \A u \in Users : Excuses(call[r], u) => Fine(u) \/ Excuses(c, u)
    <3>1. PrimaryOf(call[r].user) = {}
      BY <1>1, <2>3, <2>5, Before DEF PrimaryProceeds, Holds
    <3>2. c.pc = "unlink_promote" /\ c.id = i
      BY <2>2
    <3>3. Holds(c)
      BY <2>4, <3>1, <3>2 DEF Holds
    <3> QED  BY <1>1, <2>4, <3>2, <3>3 DEF Excuses
  <2> QED  BY <1>1, <2>3, <2>5, PrimaryReads
<1> QED  BY <1>2, <1>3

\* A crash, or an unset that the database refuses.
LEMMA FailsEnd ==
  ASSUME PrimaryInv, WalletInv', NEW r \in Reqs,
         LinkCountFails(r) \/ UpdateWalletUnsetFails(r) \/ WalletDies(r)
  PROVE  PrimaryInv'
<1>1. PICK c : call' = [call EXCEPT ![r] = c]
  BY DEF LinkCountFails, UpdateWalletUnsetFails, WalletDies, Dies
<1>2. /\ UNCHANGED <<wallets, waived, load>>
      /\ faults' = faults + 1
      /\ call[r] # Idle
  BY DEF LinkCountFails, UpdateWalletUnsetFails, WalletDies, Dies, At, Idle, walletVars
<1>3. PrimaryProceeds(r, c) /\ faults' > faults
  BY <1>1, <1>2 DEF PrimaryProceeds, PrimaryInv
<1> QED  BY <1>2, <1>3, PrimaryEnds

\* Logins and challenges.
LEMMA ApartStays ==
  ASSUME PrimaryInv, WalletInv', UNCHANGED <<wallets, waived, call, load, faults>>
  PROVE  PrimaryInv'
  BY DEF PrimaryInv, Accepted, Live, Holds, Fine, Excuses, Of, PrimaryOf, Serial

LEMMA OneRow ==
  ASSUME WalletInv, NEW i \in Ids, NEW w, wallets' = [wallets EXCEPT ![i] = w]
  PROVE  wallets'[i] = w /\ \A j \in Ids \ {i} : wallets'[j] = wallets[j]
  BY DEF WalletInv, RowsProven

\* A user whose row neither goes nor comes keeps what there is.
LEMMA OthersStay ==
  ASSUME WalletInv, NEW i \in Ids, NEW w, wallets' = [wallets EXCEPT ![i] = w], NEW v,
         ~(Live(wallets, i) /\ wallets[i].user = v), ~(w.state = "live" /\ w.user = v)
  PROVE  Of(wallets, v)' = Of(wallets, v) /\ PrimaryOf(v)' = PrimaryOf(v)
<1>1. Of(wallets, v)' = Of(wallets, v)
  BY OneRow DEF Of, Live
<1>2. \A j \in Of(wallets, v) : j # i /\ wallets'[j] = wallets[j]
  BY OneRow DEF Of
<1> QED  BY <1>1, <1>2 DEF PrimaryOf

\* When the database takes a changed row.
LEMMA AcceptedRow ==
  ASSUME WalletInv, Accepted(wallets), NEW i \in Ids, NEW w,
         w.state = "live" =>
           /\ Live(wallets, i) /\ w.user = wallets[i].user /\ w.address = wallets[i].address
           /\ w.primary => wallets[i].primary \/ PrimaryOf(w.user) \subseteq {i}
  PROVE  Accepted([wallets EXCEPT ![i] = w])
<1>1. PICK table : table = [wallets EXCEPT ![i] = w]
  OBVIOUS
<1>2. table[i] = w /\ \A j \in Ids \ {i} : table[j] = wallets[j]
  BY <1>1 DEF WalletInv, RowsProven
<1>3. ASSUME NEW j \in Ids, NEW k \in Ids, Live(table, j), Live(table, k), j # k,
             table[j].user = table[k].user
      PROVE  table[j].address # table[k].address
  BY <1>2, <1>3 DEF Accepted, Live
<1>4. ASSUME NEW k \in Ids, Live(table, i), Live(table, k), i # k, table[i].user = table[k].user,
             table[i].primary, table[k].primary
      PROVE  FALSE
  <2>1. Live(wallets, k) /\ wallets[k].user = w.user /\ wallets[k].primary
    BY <1>2, <1>4 DEF Live
  <2>2. k \in PrimaryOf(w.user)
    BY <2>1 DEF PrimaryOf, Of
  <2>3. w.state = "live" /\ w.primary
    BY <1>2, <1>4 DEF Live
  <2> QED  BY <1>4, <2>1, <2>2, <2>3 DEF Accepted
<1>5. ASSUME NEW j \in Ids \ {i}, NEW k \in Ids \ {i}, Live(table, j), Live(table, k), j # k,
             table[j].user = table[k].user
      PROVE  ~(table[j].primary /\ table[k].primary)
  BY <1>2, <1>5 DEF Accepted, Live
<1>6. Accepted(table)
  <2>1. ASSUME NEW j \in Ids, NEW k \in Ids, Live(table, j), Live(table, k), j # k,
               table[j].user = table[k].user
        PROVE  ~(table[j].primary /\ table[k].primary)
    BY <1>4, <1>5, <2>1
  <2> QED  BY <1>3, <2>1 DEF Accepted
<1> QED  BY <1>1, <1>6

LEMMA WriteAccepted ==
  ASSUME PrimaryInv, \/ UNCHANGED wallets
                     \/ \E table : WriteWallets(table)
  PROVE  Accepted(wallets)'
<1>1. ASSUME NEW table, WriteWallets(table) PROVE Accepted(wallets)'
  <2>1. CASE Accepted(table)
    BY <1>1, <2>1 DEF WriteWallets, Accepted, Live
  <2>2. CASE ~Accepted(table)
    BY <1>1, <2>2 DEF WriteWallets, PrimaryInv, Accepted, Live
  <2> QED  BY <2>1, <2>2
<1>2. CASE UNCHANGED wallets
  BY <1>2 DEF PrimaryInv, Accepted, Live
<1> QED  BY <1>1, <1>2

\* A write of a handler that then is done with the flag.
LEMMA PrimaryWrites ==
  ASSUME PrimaryInv, NEW r \in Reqs, NEW c, PrimaryProceeds(r, c), Accepted(wallets)', c.pc \notin Reaching,
         ASSUME Serial, faults = 0, Holds(call[r]), NEW u \in Users, Fine(u) \/ Excuses(call[r], u)
         PROVE  Fine(u)'
  PROVE  PrimaryInv'
<1>1. ASSUME Serial, faults' = 0, faults = 0
      PROVE  Holds(c)' /\ \A u \in Users : Fine(u)' \/ Excuses(c, u)'
  <2>1. Holds(call[r]) /\ \A u \in Users : Fine(u) \/ Excuses(call[r], u)
    BY <1>1, Before DEF PrimaryProceeds
  <2>2. Holds(c)'
    BY DEF Holds, Reaching
  <2> QED  BY <1>1, <2>1, <2>2
<1> QED  BY <1>1, PrimaryStep

\* linkWallet stores its row: the first one of the user is primary.
LEMMA InsertKeeps == ASSUME PrimaryInv, WalletInv', NEW r \in Reqs, LinkInsert(r) PROVE PrimaryInv'
<1>1. PICK i \in Ids :
         LET table == [wallets EXCEPT ![i] = Stored(call[r])]
         IN /\ wallets[i] = NoRow
            /\ WriteWallets(table)
            /\ waived' = IF Accepted(table) /\ call[r].primary
                         THEN waived \ {call[r].user} ELSE waived
            /\ IF Accepted(table) /\ call[r].provider # Nothing
               THEN Await(r, [pc |-> "link_provider", user |-> call[r].user,
                              provider |-> call[r].provider])
               ELSE Done(r)
  BY DEF LinkInsert
<1>2. PICK table : table = [wallets EXCEPT ![i] = Stored(call[r])]
  OBVIOUS
<1>3. /\ wallets[i] = NoRow
      /\ WriteWallets(table)
      /\ waived' = IF Accepted(table) /\ call[r].primary
                   THEN waived \ {call[r].user} ELSE waived
  BY <1>1, <1>2
<1>4. PICK c : Await(r, c) /\ c.pc \notin Reaching
  BY <1>1 DEF Done, Idle, Reaching
<1>5. call[r].pc = "link_insert"
  BY DEF LinkInsert, At
<1>6. PrimaryProceeds(r, c) /\ Accepted(wallets)'
  BY <1>3, <1>4, <1>5, AwaitProceeds, WriteAccepted
<1>7. ASSUME Serial, faults = 0, Holds(call[r]), NEW u \in Users, Fine(u) \/ Excuses(call[r], u)
      PROVE  Fine(u)'
  <2>1. Fine(u) /\ (call[r].primary <=> Of(wallets, call[r].user) = {})
    BY <1>5, <1>7 DEF Excuses, Holds
  <2>2. CASE ~Accepted(table)
    BY <1>3, <2>1, <2>2 DEF WriteWallets, Fine, Of, PrimaryOf, Live
  <2>3. CASE Accepted(table)
    <3>1. PICK w : w = Stored(call[r])
      OBVIOUS
    <3>2. w.state = "live" /\ w.user = call[r].user /\ w.primary = call[r].primary
      BY <3>1 DEF Stored
    <3>3. wallets' = [wallets EXCEPT ![i] = w] /\ ~Live(wallets, i)
      BY <1>2, <1>3, <2>3, <3>1 DEF WriteWallets, Live, NoRow
    <3>4. wallets'[i] = w /\ \A j \in Ids \ {i} : wallets'[j] = wallets[j]
      BY <3>3, OneRow DEF PrimaryInv
    <3>5. CASE u # call[r].user
      <4>1. Of(wallets, u)' = Of(wallets, u) /\ PrimaryOf(u)' = PrimaryOf(u)
        BY <3>2, <3>3, <3>5, OthersStay DEF PrimaryInv
      <4> QED  BY <1>3, <2>1, <3>5, <4>1 DEF Fine
    <3>6. CASE u = call[r].user /\ call[r].primary
      BY <3>2, <3>4, <3>6 DEF Fine, PrimaryOf, Of, Live
    <3>7. CASE u = call[r].user /\ ~call[r].primary
      <4>1. PrimaryOf(u) # {} \/ u \in waived
        BY <2>1, <3>7 DEF Fine
      <4>2. PrimaryOf(u) \subseteq PrimaryOf(u)'
        BY <3>3, <3>4 DEF PrimaryOf, Of, Live
      <4> QED  BY <1>3, <3>7, <4>1, <4>2 DEF Fine
    <3> QED  BY <3>5, <3>6, <3>7
  <2> QED  BY <2>2, <2>3
<1> QED  BY <1>4, <1>6, <1>7, PrimaryWrites

\* updateWallet takes the flag from the user's other rows: the one that is
\* about to get it is the only one that may still have it.
LEMMA UnsetKeeps ==
  ASSUME PrimaryInv, WalletInv', NEW r \in Reqs, UpdateWalletUnset(r) PROVE PrimaryInv'
<1>1. PICK c : c = [call[r] EXCEPT !.pc = "primary_write"]
  OBVIOUS
<1>2. call[r].pc = "primary_unset"
  BY DEF UpdateWalletUnset, At
<1>3. /\ c.pc = "primary_write" /\ c.user = call[r].user /\ c.id = call[r].id
      /\ c.primary = call[r].primary
  <2>1. call[r] = [pc |-> "primary_unset", user |-> call[r].user, id |-> call[r].id,
                   primary |-> call[r].primary]
    BY <1>2 DEF PrimaryInv, WalletInv, CallsSound, WalletSound
  <2> QED  BY <1>1, <2>1
<1>4. PrimaryProceeds(r, c)
  BY <1>1, <1>2, AwaitProceeds DEF UpdateWalletUnset
<1>5. ASSUME NEW i \in Ids
      PROVE  /\ Live(wallets', i) <=> Live(wallets, i)
             /\ Live(wallets, i) =>
                  /\ wallets'[i].user = wallets[i].user
                  /\ wallets'[i].address = wallets[i].address
                  /\ wallets'[i].primary =
                       IF wallets[i].user = call[r].user /\ i # call[r].id
                       THEN FALSE ELSE wallets[i].primary
  <2>1. wallets'[i] = IF i \in Of(wallets, call[r].user) \ {call[r].id}
                      THEN [wallets[i] EXCEPT !.primary = FALSE] ELSE wallets[i]
    BY DEF UpdateWalletUnset
  <2>2. CASE ~Live(wallets, i)
    BY <2>1, <2>2 DEF Of, Live
  <2>3. CASE Live(wallets, i)
    <3>1. wallets[i] \in WalletRow
      BY <2>3, LiveRow DEF PrimaryInv
    <3>2. i \in Of(wallets, call[r].user) <=> wallets[i].user = call[r].user
      BY <2>3 DEF Of
    <3>3. CASE wallets[i].user = call[r].user /\ i # call[r].id
      <4>1. wallets'[i] = [wallets[i] EXCEPT !.primary = FALSE]
        BY <2>1, <3>2, <3>3
      <4> QED  BY <2>3, <3>1, <3>3, <4>1 DEF WalletRow, Live
    <3>4. CASE ~(wallets[i].user = call[r].user /\ i # call[r].id)
      <4>1. wallets'[i] = wallets[i]
        BY <2>1, <3>2, <3>4
      <4> QED  BY <2>3, <3>4, <4>1 DEF Live
    <3> QED  BY <3>3, <3>4
  <2> QED  BY <2>2, <2>3
<1>6. Accepted(wallets)'
  <2>1. \A i \in Ids : Live(wallets', i) =>
          /\ Live(wallets, i) /\ wallets'[i].user = wallets[i].user
          /\ wallets'[i].address = wallets[i].address
          /\ wallets'[i].primary => wallets[i].primary
    BY <1>5
  <2>2. \A i, j \in Ids :
          (Live(wallets, i) /\ Live(wallets, j) /\ i # j /\ wallets[i].user = wallets[j].user)
            => /\ wallets[i].address # wallets[j].address
               /\ ~(wallets[i].primary /\ wallets[j].primary)
    BY DEF PrimaryInv, Accepted
  <2>3. ASSUME NEW i \in Ids, NEW j \in Ids, Live(wallets', i), Live(wallets', j), i # j,
               wallets'[i].user = wallets'[j].user
        PROVE  /\ wallets'[i].address # wallets'[j].address
               /\ ~(wallets'[i].primary /\ wallets'[j].primary)
    BY <2>1, <2>2, <2>3
  <2> QED  BY <2>3 DEF Accepted
<1>7. ASSUME Serial, faults' = 0, faults = 0
      PROVE  Holds(c)' /\ \A u \in Users : Fine(u)' \/ Excuses(c, u)'
  <2>1. Holds(call[r]) /\ \A u \in Users : Fine(u) \/ Excuses(call[r], u)
    BY <1>4, <1>7, Before DEF PrimaryProceeds
  <2>2. call[r].id \in Of(wallets, call[r].user) /\ call[r].primary
    BY <1>2, <2>1 DEF Holds
  <2>3. \A u : Of(wallets, u)' = Of(wallets, u)
    BY <1>5 DEF Of
  <2>4. PrimaryOf(c.user)' \subseteq {c.id}
    BY <1>3, <1>5, <2>3 DEF PrimaryOf, Of
  <2>5. Holds(c)'
    BY <1>3, <2>2, <2>3, <2>4 DEF Holds
  <2>6. ASSUME NEW u \in Users, u # c.user PROVE Fine(u)'
    <3>1. PrimaryOf(u)' = PrimaryOf(u)
      BY <1>3, <1>5, <2>3, <2>6 DEF PrimaryOf, Of
    <3>2. Fine(u) /\ UNCHANGED waived
      BY <1>2, <1>3, <2>1, <2>6 DEF Excuses, UpdateWalletUnset
    <3> QED  BY <2>3, <3>1, <3>2 DEF Fine
  <2>7. Excuses(c, c.user)'
    BY <1>3, <2>2 DEF Excuses
  <2> QED  BY <2>5, <2>6, <2>7
<1> QED  BY <1>4, <1>6, <1>7, PrimaryStep

\* updateWallet sets the flag, which the database takes, or unsets it, which
\* is what the user asked for.
LEMMA WriteKeeps ==
  ASSUME PrimaryInv, WalletInv', NEW r \in Reqs, UpdateWalletWrite(r) PROVE PrimaryInv'
<1>1. PICK i : i = call[r].id
  OBVIOUS
<1>2. PICK u : u = call[r].user
  OBVIOUS
<1>3. /\ IF Live(wallets, i)
         THEN WriteWallets([wallets EXCEPT ![i].primary = call[r].primary])
         ELSE UNCHANGED wallets
      /\ waived' = IF call[r].primary THEN waived \ {u}
                   ELSE IF wallets[i].primary THEN waived \cup {u} ELSE waived
      /\ Await(r, Idle)
      /\ call[r].pc = "primary_write"
  BY <1>1, <1>2 DEF UpdateWalletWrite, Done, At
<1>4. PrimaryProceeds(r, Idle) /\ Accepted(wallets)'
  BY <1>3, AwaitProceeds, WriteAccepted
<1>5. ASSUME Serial, faults = 0, Holds(call[r]), NEW v \in Users, Fine(v) \/ Excuses(call[r], v)
      PROVE  Fine(v)'
  <2>1. /\ i \in Of(wallets, u)
        /\ call[r].primary => PrimaryOf(u) \subseteq {i}
        /\ Fine(v) \/ (call[r].primary /\ u = v)
    BY <1>1, <1>2, <1>3, <1>5 DEF Holds, Excuses
  <2>2. i \in Ids /\ Live(wallets, i) /\ wallets[i].user = u /\ wallets[i] \in WalletRow
    BY <2>1, LiveRow DEF Of, PrimaryInv
  <2>3. call[r].primary \in BOOLEAN
    BY <1>3 DEF PrimaryInv, WalletInv, CallsSound, WalletSound
  <2>4. PICK w : w = [wallets[i] EXCEPT !.primary = call[r].primary]
    OBVIOUS
  <2>5. /\ w.state = "live" /\ w.user = u /\ w.address = wallets[i].address
        /\ w.primary = call[r].primary
    BY <2>2, <2>4 DEF WalletRow, Live
  <2>6. wallets' = [wallets EXCEPT ![i] = w]
    <3>1. Accepted([wallets EXCEPT ![i] = w])
      BY <2>1, <2>2, <2>5, AcceptedRow DEF PrimaryInv
    <3>2. [wallets EXCEPT ![i].primary = call[r].primary] = [wallets EXCEPT ![i] = w]
      BY <2>4
    <3> QED  BY <1>3, <2>2, <3>1, <3>2 DEF WriteWallets
  <2>7. wallets'[i] = w /\ \A j \in Ids \ {i} : wallets'[j] = wallets[j]
    BY <2>2, <2>6, OneRow DEF PrimaryInv
  <2>8. CASE v # u
    <3>1. Of(wallets, v)' = Of(wallets, v) /\ PrimaryOf(v)' = PrimaryOf(v)
      BY <2>2, <2>5, <2>6, <2>8, OthersStay DEF PrimaryInv
    <3> QED  BY <1>3, <2>1, <2>8, <3>1 DEF Fine
  <2>9. CASE v = u /\ call[r].primary
    BY <2>2, <2>5, <2>7, <2>9 DEF Fine, PrimaryOf, Of, Live
  <2>10. CASE v = u /\ ~call[r].primary /\ wallets[i].primary
    BY <1>3, <2>10 DEF Fine
  <2>11. CASE v = u /\ ~call[r].primary /\ ~wallets[i].primary
    <3>1. PrimaryOf(v) # {} \/ v \in waived
      BY <2>1, <2>11 DEF Fine
    <3>2. PrimaryOf(v) \subseteq PrimaryOf(v)'
      BY <2>7, <2>11 DEF PrimaryOf, Of, Live
    <3> QED  BY <1>3, <2>11, <3>1, <3>2 DEF Fine
  <2> QED  BY <2>8, <2>9, <2>10, <2>11
<1>6. Idle.pc \notin Reaching
  BY DEF Idle, Reaching
<1> QED  BY <1>4, <1>5, <1>6, PrimaryWrites

\* unlinkWallet deletes the row: without the flag nothing is lost, with it
\* the handler goes on to hand it on.
LEMMA DeleteKeeps ==
  ASSUME PrimaryInv, WalletInv', NEW r \in Reqs, UnlinkDelete(r) PROVE PrimaryInv'
<1>1. PICK i : i = call[r].id
  OBVIOUS
<1>2. PICK u : u = call[r].user
  OBVIOUS
<1>3. PICK c : c = IF call[r].primary THEN [pc |-> "unlink_pick", user |-> u] ELSE Idle
  OBVIOUS
<1>4. /\ wallets' = IF i \in Of(wallets, u) THEN [wallets EXCEPT ![i].state = "deleted"]
                    ELSE wallets
      /\ Await(r, c)
      /\ UNCHANGED waived
      /\ call[r].pc = "unlink_delete"
  BY <1>1, <1>2, <1>3 DEF UnlinkDelete, Done, At
<1>5. PrimaryProceeds(r, c)
  BY <1>4, AwaitProceeds
<1>6. ASSUME i \in Of(wallets, u)
      PROVE  \E w : /\ wallets' = [wallets EXCEPT ![i] = w] /\ w.state = "deleted"
                    /\ i \in Ids /\ Live(wallets, i) /\ wallets[i].user = u
  <2>1. i \in Ids /\ Live(wallets, i) /\ wallets[i].user = u /\ wallets[i] \in WalletRow
    BY <1>6, LiveRow DEF Of, PrimaryInv
  <2>2. PICK w : w = [wallets[i] EXCEPT !.state = "deleted"]
    OBVIOUS
  <2>3. w.state = "deleted"
    BY <2>1, <2>2 DEF WalletRow
  <2> QED  BY <1>4, <1>6, <2>1, <2>2, <2>3
<1>7. Accepted(wallets)'
  <2>1. CASE i \notin Of(wallets, u)
    BY <1>4, <2>1, WriteAccepted
  <2>2. CASE i \in Of(wallets, u)
    <3>1. PICK w : /\ wallets' = [wallets EXCEPT ![i] = w] /\ w.state = "deleted" /\ i \in Ids
      BY <1>6, <2>2
    <3>2. Accepted([wallets EXCEPT ![i] = w])
      BY <3>1, AcceptedRow DEF PrimaryInv
    <3> QED  BY <3>1, <3>2 DEF Accepted, Live
  <2> QED  BY <2>1, <2>2
<1>8. ASSUME Serial, faults' = 0, faults = 0
      PROVE  Holds(c)' /\ \A v \in Users : Fine(v)' \/ Excuses(c, v)'
  <2>1. Holds(call[r]) /\ \A v \in Users : Fine(v) \/ Excuses(call[r], v)
    BY <1>5, <1>8, Before DEF PrimaryProceeds
  <2>2. /\ i \in Of(wallets, u)
        /\ call[r].primary <=> wallets[i].primary
        /\ \A v \in Users : Fine(v)
    BY <1>1, <1>2, <1>4, <2>1 DEF Holds, Excuses
  <2>3. PICK w : /\ wallets' = [wallets EXCEPT ![i] = w] /\ w.state = "deleted"
                 /\ i \in Ids /\ Live(wallets, i) /\ wallets[i].user = u
    BY <1>6, <2>2
  <2>4. wallets'[i] = w /\ \A j \in Ids \ {i} : wallets'[j] = wallets[j]
    BY <2>3, OneRow DEF PrimaryInv
  <2>5. ASSUME NEW v \in Users, v # u PROVE Fine(v)'
    <3>1. Of(wallets, v)' = Of(wallets, v) /\ PrimaryOf(v)' = PrimaryOf(v)
      BY <2>3, <2>5, OthersStay DEF PrimaryInv
    <3> QED  BY <1>4, <2>2, <3>1 DEF Fine
  <2>6. CASE call[r].primary
    <3>1. c.pc = "unlink_pick" /\ c.user = u
      BY <1>3, <2>6
    <3>2. ASSUME NEW j \in PrimaryOf(u)' PROVE FALSE
      <4>1. j \in Ids \ {i} /\ Live(wallets, j) /\ wallets[j].user = u /\ wallets[j].primary
        BY <2>3, <2>4 DEF PrimaryOf, Of, Live
      <4> QED  BY <2>2, <2>3, <2>6, <4>1 DEF PrimaryInv, Accepted
    <3> QED  BY <2>5, <3>1, <3>2 DEF Holds, Excuses
  <2>7. CASE ~call[r].primary
    <3>1. c = Idle
      BY <1>3, <2>7
    <3>2. PrimaryOf(u) \subseteq PrimaryOf(u)' /\ Of(wallets, u)' \subseteq Of(wallets, u)
      BY <2>2, <2>3, <2>4, <2>7 DEF PrimaryOf, Of, Live
    <3>3. u \in Users => Fine(u)'
      BY <1>4, <2>2, <3>2 DEF Fine
    <3> QED  BY <2>5, <3>1, <3>3 DEF Holds, Idle
  <2> QED  BY <2>6, <2>7
<1> QED  BY <1>5, <1>7, <1>8, PrimaryStep

\* unlinkWallet hands the flag on, and the database takes it.
LEMMA PromoteKeeps ==
  ASSUME PrimaryInv, WalletInv', NEW r \in Reqs, UnlinkPromote(r) PROVE PrimaryInv'
<1>1. PICK i : i = call[r].id
  OBVIOUS
<1>2. /\ IF Live(wallets, i) THEN WriteWallets([wallets EXCEPT ![i].primary = TRUE])
         ELSE UNCHANGED wallets
      /\ UNCHANGED waived
      /\ Await(r, Idle)
      /\ call[r].pc = "unlink_promote"
  BY <1>1 DEF UnlinkPromote, Done, At
<1>3. PrimaryProceeds(r, Idle) /\ Accepted(wallets)'
  BY <1>2, AwaitProceeds, WriteAccepted
<1>4. ASSUME Serial, faults = 0, Holds(call[r]), NEW v \in Users, Fine(v) \/ Excuses(call[r], v)
      PROVE  Fine(v)'
  <2>1. /\ i \in Ids /\ Live(wallets, i)
        /\ PrimaryOf(wallets[i].user) = {}
        /\ Fine(v) \/ wallets[i].user = v
    BY <1>1, <1>2, <1>4 DEF Holds, Excuses
  <2>2. wallets[i] \in WalletRow
    BY <2>1, LiveRow DEF PrimaryInv
  <2>3. PICK w : w = [wallets[i] EXCEPT !.primary = TRUE]
    OBVIOUS
  <2>4. /\ w.state = "live" /\ w.user = wallets[i].user /\ w.address = wallets[i].address
        /\ w.primary
    BY <2>1, <2>2, <2>3 DEF WalletRow, Live
  <2>5. wallets' = [wallets EXCEPT ![i] = w]
    <3>1. Accepted([wallets EXCEPT ![i] = w])
      BY <2>1, <2>4, AcceptedRow DEF PrimaryInv
    <3>2. [wallets EXCEPT ![i].primary = TRUE] = [wallets EXCEPT ![i] = w]
      BY <2>3
    <3> QED  BY <1>2, <2>1, <3>1, <3>2 DEF WriteWallets
  <2>6. wallets'[i] = w
    BY <2>1, <2>5, OneRow DEF PrimaryInv
  <2>7. CASE v # wallets[i].user
    <3>1. Of(wallets, v)' = Of(wallets, v) /\ PrimaryOf(v)' = PrimaryOf(v)
      BY <2>1, <2>4, <2>5, <2>7, OthersStay DEF PrimaryInv
    <3> QED  BY <1>2, <2>1, <2>7, <3>1 DEF Fine
  <2>8. CASE v = wallets[i].user
    BY <2>1, <2>4, <2>6, <2>8 DEF Fine, PrimaryOf, Of, Live
  <2> QED  BY <2>7, <2>8
<1>5. Idle.pc \notin Reaching
  BY DEF Idle, Reaching
<1> QED  BY <1>3, <1>4, <1>5, PrimaryWrites

\* verifyWallet touches neither whose a row is nor its flag.
LEMMA VerifyKeeps ==
  ASSUME PrimaryInv, WalletInv', NEW r \in Reqs, VerifyWrite(r) PROVE PrimaryInv'
<1>1. PICK i : i = call[r].id
  OBVIOUS
<1>2. /\ wallets' = IF Live(wallets, i) THEN [wallets EXCEPT ![i].verified = TRUE] ELSE wallets
      /\ UNCHANGED waived
      /\ Await(r, Idle)
      /\ call[r].pc = "verify_write"
      /\ i \in Ids
  BY <1>1 DEF VerifyWrite, Done, At, PrimaryInv, WalletInv, CallsSound, WalletSound
<1>3. \A j \in Ids : /\ Live(wallets', j) <=> Live(wallets, j)
                     /\ Live(wallets, j) => /\ wallets'[j].user = wallets[j].user
                                            /\ wallets'[j].address = wallets[j].address
                                            /\ wallets'[j].primary = wallets[j].primary
  <2>1. CASE ~Live(wallets, i)
    BY <1>2, <2>1
  <2>2. CASE Live(wallets, i)
    <3>1. PICK w : w = [wallets[i] EXCEPT !.verified = TRUE]
      OBVIOUS
    <3>2. wallets' = [wallets EXCEPT ![i] = w]
      BY <1>2, <2>2, <3>1
    <3>3. /\ w.state = "live" /\ w.user = wallets[i].user /\ w.address = wallets[i].address
          /\ w.primary = wallets[i].primary
      BY <1>2, <2>2, <3>1, LiveRow DEF WalletRow, Live, PrimaryInv
    <3>4. wallets'[i] = w /\ \A j \in Ids \ {i} : wallets'[j] = wallets[j]
      BY <1>2, <3>2, OneRow DEF PrimaryInv
    <3> QED  BY <2>2, <3>3, <3>4 DEF Live
  <2> QED  BY <2>1, <2>2
<1>4. Accepted(wallets)'
  BY <1>3 DEF PrimaryInv, Accepted
<1>5. \A v : Of(wallets, v)' = Of(wallets, v) /\ PrimaryOf(v)' = PrimaryOf(v)
  <2>1. \A v : Of(wallets, v)' = Of(wallets, v)
    BY <1>3 DEF Of
  <2>2. \A v : \A j \in Of(wallets, v) : wallets'[j].primary = wallets[j].primary
    BY <1>3 DEF Of
  <2> QED  BY <2>1, <2>2 DEF PrimaryOf
<1>6. ASSUME NEW v \in Users, Fine(v) \/ Excuses(call[r], v) PROVE Fine(v)'
  BY <1>2, <1>5, <1>6 DEF Fine, Excuses
<1>7. Idle.pc \notin Reaching
  BY DEF Idle, Reaching
<1>8. PrimaryProceeds(r, Idle)
  BY <1>2, AwaitProceeds
<1> QED  BY <1>4, <1>6, <1>7, <1>8, PrimaryWrites

LEMMA PrimaryInvNext ==
  PrimaryInv /\ [WalletsNext]_<<walletVars, accountVars, callVars>> => PrimaryInv'
<1> SUFFICES ASSUME PrimaryInv, [WalletsNext]_<<walletVars, accountVars, callVars>>
             PROVE  PrimaryInv'
  OBVIOUS
<1>1. WalletInv'
  BY WalletInvNext DEF PrimaryInv
<1>2. CASE UNCHANGED <<walletVars, accountVars, callVars>>
  BY <1>1, <1>2, ApartStays DEF walletVars, callVars
<1>3. ASSUME NEW u \in load.users, NEW a \in ActiveAddresses,
             \/ generateVerificationChallenge(u, a)
             \/ \E p \in PollarIds \cup {Nothing} : Login(u, a, p) /\ UNCHANGED walletVars
             \/ \E r \in Reqs : LinkRead(r, u, a)
             \/ \E r \in Reqs, i \in Ids : VerifyRead(r, u, i, a)
      PROVE  PrimaryInv'
  <2>1. CASE \/ generateVerificationChallenge(u, a)
             \/ \E p \in PollarIds \cup {Nothing} : Login(u, a, p) /\ UNCHANGED walletVars
    BY <1>1, <2>1, ApartStays DEF generateVerificationChallenge, Login, walletVars, callVars
  <2>2. CASE \/ \E r \in Reqs : LinkRead(r, u, a)
             \/ \E r \in Reqs, i \in Ids : VerifyRead(r, u, i, a)
    BY <1>1, <2>2, LinkReads, OtherReads
  <2> QED  BY <1>3, <2>1, <2>2
<1>4. CASE ChallengeExpires
  BY <1>1, <1>4, ApartStays DEF ChallengeExpires, callVars
<1>5. ASSUME NEW r \in Reqs, NEW u \in load.users, NEW i \in Ids,
             \/ \E primary \in BOOLEAN : UpdateWalletRead(r, u, i, primary)
             \/ UnlinkRead(r, u, i)
      PROVE  PrimaryInv'
  BY <1>1, <1>5, OtherReads
<1>6. ASSUME NEW r \in Reqs,
             \/ LinkCount(r) \/ LinkCountFails(r) \/ LinkProve(r) \/ LinkRefused(r)
             \/ LinkInsert(r) \/ LinkProvider(r)
             \/ UpdateWalletUnset(r) \/ UpdateWalletUnsetFails(r) \/ UpdateWalletWrite(r)
      PROVE  PrimaryInv'
  BY <1>1, <1>6, LinkReads, InsertKeeps, UnsetKeeps, FailsEnd, WriteKeeps
<1>7. ASSUME NEW r \in Reqs,
             \/ UnlinkDelete(r) \/ UnlinkPick(r) \/ UnlinkPromote(r)
             \/ VerifyWrite(r) \/ WalletDies(r)
      PROVE  PrimaryInv'
  BY <1>1, <1>7, DeleteKeeps, PickReads, PromoteKeeps, VerifyKeeps, FailsEnd
<1> QED  BY <1>2, <1>3, <1>4, <1>5, <1>6, <1>7 DEF WalletsNext

LEMMA PrimaryInvInit ==
  ASSUME CallsInit, WalletsInit, NEW enterprises, NEW admins, AccountsInit(enterprises, admins)
  PROVE  PrimaryInv
<1>1. WalletInv
  BY WalletInvInit
<1>2. PICK old \in Legacy :
        wallets = [i \in Ids |-> IF i > 1 THEN NoRow ELSE
                    [state |-> "live", user |-> old[1], address |-> old[2], kind |-> "external",
                     primary |-> TRUE, verified |-> FALSE, provider |-> Nothing,
                     pollar |-> Nothing]]
  BY DEF WalletsInit
<1>3. \A i \in Ids : Live(wallets, i) => i = 1 /\ wallets[i].primary
  BY <1>2, WalletsAssumption DEF Live, NoRow, Ids
<1>4. Accepted(wallets)
  BY <1>3 DEF Accepted
<1>5. \A u \in Users : Fine(u)
  BY <1>3 DEF Fine, PrimaryOf, Of
<1>6. \A r \in Reqs : call[r] = Idle
  BY DEF CallsInit
<1>7. Holds(Idle)
  BY DEF Holds, Idle
<1> QED  BY <1>1, <1>4, <1>5, <1>6, <1>7 DEF PrimaryInv, CallsInit

\* For any users, wallets and sequence of requests, as long as they do not
\* overlap and no database call fails, a user who has wallets and did not
\* unset the flag has a primary one between requests: linkWallet's count,
\* updateWallet's unset and unlinkWallet's promotion are enough.  The proof
\* also shows why: the partial index on is_primary refuses none of their
\* writes (AcceptedRow).
THEOREM PrimaryIsKept == WalletsSpec => []PrimaryKept
<1>1. PrimaryInv => PrimaryKept
  <2> SUFFICES ASSUME PrimaryInv, Serial, faults = 0, AllIdle, NEW u \in Users
               PROVE  Fine(u)
    BY DEF PrimaryKept, Fine
  <2>1. Fine(u) \/ \E r \in Reqs : Excuses(call[r], u)
    BY DEF PrimaryInv
  <2>2. \A r \in Reqs : ~Excuses(call[r], u)
    BY DEF AllIdle, Excuses, Idle
  <2> QED  BY <2>1, <2>2
<1>2. /\ CallsInit
      /\ \E enterprises, admins \in SUBSET Users : AccountsInit(enterprises, admins)
      /\ WalletsInit
      => PrimaryInv
  BY PrimaryInvInit
<1> QED  BY <1>1, <1>2, PrimaryInvNext, PTL DEF WalletsSpec
====
