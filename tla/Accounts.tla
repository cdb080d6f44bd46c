---- MODULE Accounts ----
(***************************************************************************)
(* auth_users and profiles, src/profiles/profiles.service.ts.              *)
(*                                                                         *)
(* A user acts through auth_users.wallet_public_key, which the login       *)
(* writes; the profile of that wallet says what the user may do.  The two  *)
(* selects that lead from a user to a profile are one step here.  Profile  *)
(* fields other than account_type and role are free text.                  *)
(***************************************************************************)
EXTENDS Calls

CONSTANTS Addresses, PollarIds,
          KeyHolder,   \* who holds the key of a Stellar address
          PollarUser   \* who a Pollar id belongs to

ASSUME AccountsAssumption ==
    /\ KeyHolder \in [Addresses -> Users]
    /\ PollarUser \in [PollarIds -> Users]
    /\ \A u \in Users : \E a \in Addresses : KeyHolder[a] = u
    /\ Nothing \notin Users \cup Addresses \cup PollarIds

VARIABLES auth,       \* auth_users, by user
          profiles    \* profiles, by wallet_address

accountVars == <<auth, profiles>>

AccountTypes == {"personal", "enterprise"}

Roles == {"user", "validator", "dispute_resolver", "admin"}

Providers == {"pollar", "accesly"}

AuthUser == [key      : Addresses \cup {Nothing},
             pollar   : PollarIds \cup {Nothing},
             provider : Providers \cup {Nothing}]

Profile == [type : AccountTypes, role : Roles]

AccountsInit(enterprises, admins) ==
    /\ auth = [u \in Users |-> [key      |-> CHOOSE a \in Addresses : KeyHolder[a] = u,
                                pollar   |-> Nothing,
                                provider |-> Nothing]]
    /\ profiles = [a \in Addresses |->
                     IF KeyHolder[a] \in enterprises
                     THEN [type |-> "enterprise", role |-> "user"]
                     ELSE IF KeyHolder[a] \in admins
                     THEN [type |-> "personal", role |-> "admin"]
                     ELSE Nothing]

ActiveAddresses == {a \in Addresses : KeyHolder[a] \in load.users}

walletForUserId(u) == auth[u].key

\* resolveCallerProfile: Nothing where the code throws.
callerProfile(u) ==
    IF walletForUserId(u) = Nothing THEN Nothing ELSE profiles[walletForUserId(u)]

isAdmin(u) == callerProfile(u) # Nothing /\ callerProfile(u).role = "admin"

IsProject(u) == callerProfile(u) # Nothing /\ callerProfile(u).type = "enterprise"

\* External: the login proves the key (or asks Pollar, which does) and
\* writes both columns before it mints the token.
Login(u, a, p) ==
    /\ KeyHolder[a] = u
    /\ p \in {Nothing} \cup {q \in PollarIds : PollarUser[q] = u}
    /\ auth' = [auth EXCEPT ![u].key = a, ![u].pollar = p]
    /\ UNCHANGED <<profiles, callVars>>

GetOrCreateRead(r, u) ==
    /\ walletForUserId(u) # Nothing
    /\ profiles[walletForUserId(u)] = Nothing
    /\ \E type \in AccountTypes :
         Begin(r, [pc |-> "profile_insert", wallet |-> walletForUserId(u), type |-> type])
    /\ UNCHANGED accountVars

\* wallet_address identifies a profile: a second insert is an error.
GetOrCreateInsert(r) ==
    /\ At(r, "profile_insert")
    /\ profiles' = IF profiles[call[r].wallet] = Nothing
                   THEN [profiles EXCEPT ![call[r].wallet] =
                           [type |-> call[r].type, role |-> "user"]]
                   ELSE profiles
    /\ Done(r)
    /\ UNCHANGED auth

UpdateProfileRead(r, u) ==
    /\ walletForUserId(u) # Nothing
    /\ \E type \in AccountTypes :
         Begin(r, [pc |-> "profile_write", wallet |-> walletForUserId(u), type |-> type])
    /\ UNCHANGED accountVars

\* A match of no row is an error; nothing is written.
UpdateProfileWrite(r) ==
    /\ At(r, "profile_write")
    /\ profiles' = IF profiles[call[r].wallet] = Nothing THEN profiles
                   ELSE [profiles EXCEPT ![call[r].wallet].type = call[r].type]
    /\ Done(r)
    /\ UNCHANGED auth

SetUserRoleRead(r, u, a) ==
    /\ isAdmin(u)
    /\ \E role \in {"user", "admin"} :
         Begin(r, [pc |-> "role_write", wallet |-> a, role |-> role])
    /\ UNCHANGED accountVars

SetUserRoleWrite(r) ==
    /\ At(r, "role_write")
    /\ profiles' = IF profiles[call[r].wallet] = Nothing THEN profiles
                   ELSE [profiles EXCEPT ![call[r].wallet].role = call[r].role]
    /\ Done(r)
    /\ UNCHANGED auth
====
