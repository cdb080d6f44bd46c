---- MODULE Wallets ----
(***************************************************************************)
(* Linked wallets, src/wallets/wallets.service.ts, and what they let a     *)
(* user act as, src/common/wallets/resolve-user-wallets.ts.                *)
(*                                                                         *)
(* The table is append-only here, a deleted row keeps its id, so that a    *)
(* handler that still holds the id of a removed row writes nothing.  The   *)
(* database refuses a second row for a user and an address and a second    *)
(* primary row for a user (scripts/001_create_user_wallets.sql).  Labels,  *)
(* balances and agreement summaries are left out.                          *)
(***************************************************************************)
EXTENDS Accounts

CONSTANTS MaxRows,       \* bound: rows ever inserted
          MaxChallenges, \* bound: challenges open at once
          Legacy,        \* the user and address of a row older than the proofs
          Schemas        \* the migrations the database may have: "001", "008", "013"

ASSUME WalletsAssumption ==
    /\ MaxRows \in Nat
    /\ MaxChallenges \in Nat
    /\ Legacy \subseteq Users \X Addresses

VARIABLES wallets,       \* user_wallets, by id
          challenges,    \* challenges issued and not expired
          schema,
          waived         \* history: users who set their own primary wallet to false

walletVars == <<wallets, challenges, schema, waived>>

WalletKinds == {"custodial", "accesly", "external"}

NoRow == [state |-> "none"]

WalletRow == [state : {"live", "deleted"}, user : Users, address : Addresses,
              kind : WalletKinds, primary : BOOLEAN, verified : BOOLEAN,
              provider : Providers \cup {Nothing}, pollar : PollarIds \cup {Nothing}]

Ids == 1..MaxRows

Live(table, i) == table[i].state = "live"

Of(table, u) == {i \in Ids : Live(table, i) /\ table[i].user = u}

PrimaryOf(u) == {i \in Of(wallets, u) : wallets[i].primary}

\* UNIQUE (user_id, wallet_address), and the partial index on is_primary.
Accepted(table) ==
    \A i, j \in Ids : (Live(table, i) /\ Live(table, j) /\ i # j /\ table[i].user = table[j].user)
        => /\ table[i].address # table[j].address
           /\ ~(table[i].primary /\ table[j].primary)

\* A statement the database refuses changes nothing; the code returns its error.
WriteWallets(table) == wallets' = IF Accepted(table) THEN table ELSE wallets

\* Rows older than the ownership proof are unverified.
WalletsInit ==
    /\ \E old \in Legacy :
         wallets = [i \in Ids |-> IF i > 1 THEN NoRow ELSE
                      [state |-> "live", user |-> old[1], address |-> old[2], kind |-> "external",
                       primary |-> TRUE, verified |-> FALSE, provider |-> Nothing,
                       pollar |-> Nothing]]
    /\ challenges = {}
    /\ schema \in Schemas
    /\ waived = {}

(***************************************************************************)
(* Reads.                                                                  *)
(***************************************************************************)
resolveUserWallets(u) ==
    {wallets[i].address : i \in Of(wallets, u)} \cup ({auth[u].key} \ {Nothing})

userCanAccessAgreement(u, createdBy, participants) ==
    /\ resolveUserWallets(u) # {}
    /\ \/ createdBy = u
       \/ createdBy \in resolveUserWallets(u)
       \/ participants \cap resolveUserWallets(u) # {}

(***************************************************************************)
(* Challenges.  A challenge is bound to a user and an address; its holder  *)
(* signs the ones made for the own account, with any of the own keys.      *)
(***************************************************************************)
generateVerificationChallenge(u, a) ==
    /\ Cardinality(challenges) < MaxChallenges
    /\ challenges' = challenges \cup {<<u, a>>}
    /\ UNCHANGED <<wallets, schema, waived, accountVars, callVars>>

ChallengeExpires ==
    /\ \E c \in challenges : challenges' = challenges \ {c}
    /\ UNCHANGED <<wallets, schema, waived, accountVars, callVars>>

SignedMessages ==
    {m \in [sub : Users, addr : Addresses, key : Addresses] :
       <<m.sub, m.addr>> \in challenges /\ KeyHolder[m.key] = m.sub}

\* A bug to catch: whose key signed is not compared with the address.
ChallengeProvesAnyKey(m, u, a) == m.sub = u /\ m.addr = a

\* parseAndVerifyChallenge, the two comparisons, verifyStellarSignature.
ChallengeProves(m, u, a) == m.sub = u /\ m.addr = a /\ m.key = a

(***************************************************************************)
(* linkWallet.                                                             *)
(***************************************************************************)
\* A row that this read misses is met by the insert, which is refused.
LinkRead(r, u, a) ==
    /\ ~ \E i \in Of(wallets, u) : wallets[i].address = a
    /\ wallets[MaxRows] = NoRow
    /\ Begin(r, [pc |-> "link_count", user |-> u, address |-> a])
    /\ UNCHANGED <<walletVars, accountVars>>

LinkCount(r) ==
    /\ At(r, "link_count")
    /\ Await(r, [pc |-> "link_prove", user |-> call[r].user, address |-> call[r].address,
                 primary |-> (Of(wallets, call[r].user) = {})])
    /\ UNCHANGED <<walletVars, accountVars>>

\* The error of the count is not looked at: a count of null is not 0.
LinkCountFails(r) ==
    /\ At(r, "link_count")
    /\ faults < MaxFaults
    /\ faults' = faults + 1
    /\ call' = [call EXCEPT ![r] = [pc |-> "link_prove", user |-> call[r].user,
                                   address |-> call[r].address, primary |-> FALSE]]
    /\ UNCHANGED <<load, served, walletVars, accountVars>>

assertPollarOwnership(u, a, p) ==
    auth[u].key = a /\ auth[u].pollar # Nothing /\ auth[u].pollar = p

\* The branches by wallet_type; provider and pollar are what the body claims.
ProvenCustodial(u, a, provider, pollar) ==
    /\ (pollar # Nothing) <=> (provider = "pollar")
    /\ provider # "accesly"
    /\ provider = "pollar" => assertPollarOwnership(u, a, pollar)

ProvenAccesly(u, a, provider, pollar) ==
    provider \in {Nothing, "accesly"} /\ pollar = Nothing /\ auth[u].key = a

ProvenExternal(u, a, provider, pollar) ==
    IF provider = "pollar"
    THEN pollar # Nothing /\ assertPollarOwnership(u, a, pollar)
    ELSE /\ provider = Nothing /\ pollar = Nothing
         /\ \E m \in SignedMessages : ChallengeProves(m, u, a)

LinkProve(r) ==
    /\ At(r, "link_prove")
    /\ \E kind \in WalletKinds, provider \in Providers \cup {Nothing},
          pollar \in PollarIds \cup {Nothing} :
         LET u == call[r].user
             a == call[r].address
         IN /\ CASE kind = "custodial" -> ProvenCustodial(u, a, provider, pollar)
                 [] kind = "accesly"   -> ProvenAccesly(u, a, provider, pollar)
                 [] kind = "external"  -> ProvenExternal(u, a, provider, pollar)
            /\ Await(r, [pc |-> "link_insert", user |-> u, address |-> a, kind |-> kind,
                         primary |-> call[r].primary, pollar |-> pollar,
                         provider |-> IF kind = "accesly" THEN "accesly" ELSE provider])
    /\ UNCHANGED <<walletVars, accountVars>>

\* The caller proved nothing, or the body contradicts itself.
LinkRefused(r) ==
    /\ At(r, "link_prove")
    /\ Done(r)
    /\ UNCHANGED <<walletVars, accountVars>>

\* Columns a pending migration has not added yet are given up one at a time.
Stored(c) ==
    [state |-> "live", user |-> c.user, address |-> c.address, kind |-> c.kind,
     primary |-> c.primary, verified |-> TRUE,
     provider |-> IF schema = "001" THEN Nothing ELSE c.provider,
     pollar   |-> IF schema = "013" THEN c.pollar ELSE Nothing]

LinkInsert(r) ==
    /\ At(r, "link_insert")
    /\ \E i \in Ids :
         LET table == [wallets EXCEPT ![i] = Stored(call[r])]
         IN /\ wallets[i] = NoRow
            /\ \A j \in 1..(i - 1) : wallets[j] # NoRow
            /\ WriteWallets(table)
            /\ waived' = IF Accepted(table) /\ call[r].primary
                         THEN waived \ {call[r].user} ELSE waived
            /\ IF Accepted(table) /\ call[r].provider # Nothing
               THEN Await(r, [pc |-> "link_provider", user |-> call[r].user,
                              provider |-> call[r].provider])
               ELSE Done(r)
    /\ UNCHANGED <<challenges, schema, accountVars>>

\* Not fatal, and a no-op until migration 008 has run.
LinkProvider(r) ==
    /\ At(r, "link_provider")
    /\ auth' = IF schema = "001" THEN auth
               ELSE [auth EXCEPT ![call[r].user].provider = call[r].provider]
    /\ Done(r)
    /\ UNCHANGED <<walletVars, profiles>>

(***************************************************************************)
(* updateWallet.                                                           *)
(***************************************************************************)
UpdateWalletRead(r, u, i, primary) ==
    /\ i \in Of(wallets, u)
    /\ Begin(r, [pc |-> IF primary THEN "primary_unset" ELSE "primary_write",
                 user |-> u, id |-> i, primary |-> primary])
    /\ UNCHANGED <<walletVars, accountVars>>

UpdateWalletUnset(r) ==
    /\ At(r, "primary_unset")
    /\ wallets' = [i \in Ids |-> IF i \in Of(wallets, call[r].user) \ {call[r].id}
                                 THEN [wallets[i] EXCEPT !.primary = FALSE]
                                 ELSE wallets[i]]
    /\ Await(r, [call[r] EXCEPT !.pc = "primary_write"])
    /\ UNCHANGED <<challenges, schema, waived, accountVars>>

\* The error of this update is not looked at.
UpdateWalletUnsetFails(r) ==
    /\ At(r, "primary_unset")
    /\ faults < MaxFaults
    /\ faults' = faults + 1
    /\ call' = [call EXCEPT ![r].pc = "primary_write"]
    /\ UNCHANGED <<load, served, walletVars, accountVars>>

UpdateWalletWrite(r) ==
    /\ At(r, "primary_write")
    /\ LET i == call[r].id
       IN /\ IF Live(wallets, i)
             THEN WriteWallets([wallets EXCEPT ![i].primary = call[r].primary])
             ELSE UNCHANGED wallets
          /\ waived' = IF call[r].primary THEN waived \ {call[r].user}
                       ELSE IF wallets[i].primary THEN waived \cup {call[r].user}
                       ELSE waived
    /\ Done(r)
    /\ UNCHANGED <<challenges, schema, accountVars>>

(***************************************************************************)
(* unlinkWallet.                                                           *)
(***************************************************************************)
UnlinkRead(r, u, i) ==
    /\ i \in Of(wallets, u)
    /\ wallets[i].kind # "custodial"
    /\ Begin(r, [pc |-> "unlink_delete", user |-> u, id |-> i, primary |-> wallets[i].primary])
    /\ UNCHANGED <<walletVars, accountVars>>

\* A bug to catch: the flag is not handed on.
UnlinkDeleteLast(r) ==
    /\ At(r, "unlink_delete")
    /\ wallets' = IF call[r].id \in Of(wallets, call[r].user)
                  THEN [wallets EXCEPT ![call[r].id].state = "deleted"]
                  ELSE wallets
    /\ Done(r)
    /\ UNCHANGED <<challenges, schema, waived, accountVars>>

\* A bug to catch: the row is deleted by address, whoever it belongs to.
UnlinkDeleteByAddress(r) ==
    /\ At(r, "unlink_delete")
    /\ wallets' = [i \in Ids |->
                     IF Live(wallets, i) /\ wallets[i].address = wallets[call[r].id].address
                     THEN [wallets[i] EXCEPT !.state = "deleted"]
                     ELSE wallets[i]]
    /\ Done(r)
    /\ UNCHANGED <<challenges, schema, waived, accountVars>>

UnlinkDelete(r) ==
    /\ At(r, "unlink_delete")
    /\ wallets' = IF call[r].id \in Of(wallets, call[r].user)
                  THEN [wallets EXCEPT ![call[r].id].state = "deleted"]
                  ELSE wallets
    /\ IF call[r].primary
       THEN Await(r, [pc |-> "unlink_pick", user |-> call[r].user])
       ELSE Done(r)
    /\ UNCHANGED <<challenges, schema, waived, accountVars>>

\* select id limit 1, in no order.
UnlinkPick(r) ==
    /\ At(r, "unlink_pick")
    /\ IF Of(wallets, call[r].user) = {}
       THEN Done(r)
       ELSE \E i \in Of(wallets, call[r].user) : Await(r, [pc |-> "unlink_promote", id |-> i])
    /\ UNCHANGED <<walletVars, accountVars>>

\* The error of this update is not looked at.
UnlinkPromote(r) ==
    /\ At(r, "unlink_promote")
    /\ IF Live(wallets, call[r].id)
       THEN WriteWallets([wallets EXCEPT ![call[r].id].primary = TRUE])
       ELSE UNCHANGED wallets
    /\ Done(r)
    /\ UNCHANGED <<challenges, schema, waived, accountVars>>

(***************************************************************************)
(* verifyWallet.                                                           *)
(***************************************************************************)
VerifyRead(r, u, i, a) ==
    /\ i \in Of(wallets, u)
    /\ ~wallets[i].verified
    /\ wallets[i].address = a
    /\ \E m \in SignedMessages : ChallengeProves(m, u, a)
    /\ Begin(r, [pc |-> "verify_write", id |-> i])
    /\ UNCHANGED <<walletVars, accountVars>>

VerifyWrite(r) ==
    /\ At(r, "verify_write")
    /\ wallets' = IF Live(wallets, call[r].id)
                  THEN [wallets EXCEPT ![call[r].id].verified = TRUE]
                  ELSE wallets
    /\ Done(r)
    /\ UNCHANGED <<challenges, schema, waived, accountVars>>

WalletDies(r) == Dies(r) /\ UNCHANGED <<walletVars, accountVars>>

WalletsNext ==
    \/ \E u \in load.users, a \in ActiveAddresses :
         \/ generateVerificationChallenge(u, a)
         \/ \E p \in PollarIds \cup {Nothing} : Login(u, a, p) /\ UNCHANGED walletVars
         \/ \E r \in Reqs : LinkRead(r, u, a)
         \/ \E r \in Reqs, i \in Ids : VerifyRead(r, u, i, a)
    \/ ChallengeExpires
    \/ \E r \in Reqs, u \in load.users, i \in Ids :
         \/ \E primary \in BOOLEAN : UpdateWalletRead(r, u, i, primary)
         \/ UnlinkRead(r, u, i)
    \/ \E r \in Reqs :
         \/ LinkCount(r) \/ LinkCountFails(r) \/ LinkProve(r) \/ LinkRefused(r)
         \/ LinkInsert(r) \/ LinkProvider(r)
         \/ UpdateWalletUnset(r) \/ UpdateWalletUnsetFails(r) \/ UpdateWalletWrite(r)
         \/ UnlinkDelete(r) \/ UnlinkPick(r) \/ UnlinkPromote(r)
         \/ VerifyWrite(r) \/ WalletDies(r)

WalletsSpec ==
    /\ CallsInit
    /\ \E enterprises, admins \in SUBSET Users : AccountsInit(enterprises, admins)
    /\ WalletsInit
    /\ [][WalletsNext]_<<walletVars, accountVars, callVars>>

(***************************************************************************)
(* Properties.                                                             *)
(***************************************************************************)

\* Whatever the order of logins, challenges and links, a row marked verified
\* is for a key its user holds, and a row that names a Pollar identity names
\* the user's own, on the user's own wallet: linkWallet's branches and
\* verifyWallet accept no other proof.  Custodial rows without a provider
\* are the platform's own and prove nothing.
IdentityIsProven ==
    \A i \in Ids : Live(wallets, i) =>
        LET w == wallets[i]
        IN /\ w.verified /\ w.kind # "custodial" => KeyHolder[w.address] = w.user
           /\ w.pollar # Nothing => /\ w.provider = "pollar"
                                    /\ PollarUser[w.pollar] = w.user
                                    /\ KeyHolder[w.address] = w.user

\* When requests do not overlap and none fails, a user with wallets has a
\* primary one, unless the user unset it: linkWallet gives the flag to the
\* first row, updateWallet moves it, unlinkWallet hands it on.
PrimaryKept ==
    (Serial /\ faults = 0 /\ AllIdle) =>
        \A u \in Users : Of(wallets, u) # {} => PrimaryOf(u) # {} \/ u \in waived

\* An agreement created with one of the user's wallets stays accessible
\* whatever else is linked, made primary or verified: access is lost only
\* through the user's own unlink or another login.
AccessKept ==
    [][\A u \in Users, a \in Addresses :
         userCanAccessAgreement(u, a, {}) =>
            \/ userCanAccessAgreement(u, a, {})'
            \/ auth'[u].key # auth[u].key
            \/ \E r \in Reqs : At(r, "unlink_delete") /\ call[r].user = u]_<<wallets, auth>>
====
