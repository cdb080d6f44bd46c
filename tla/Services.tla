---- MODULE Services ----
(***************************************************************************)
(* The services that keep tables of their own.  They meet in the accounts  *)
(* of their users and share no other row, so a behaviour serves one of     *)
(* them, the one load names.                                               *)
(***************************************************************************)
EXTENDS Hiring, IdentityVerification, AgreementRoom, Notifications, EscrowGateway, MemoryQueue,
        DisputeDistributions

CONSTANTS Enterprises, Admins    \* users whose profiles exist at the start

\* The tables of the services for people, and what has no tables.
tableVars == <<walletVars, roomVars, hiringVars, identityVars, noticeVars>>

platformVars == <<gatewayVars, memoryVars, distributionVars>>

serviceVars == <<callVars, accountVars, tableVars, platformVars>>

\* A service nobody calls starts in one of its initial states.
NotServed ==
    /\ Serves("wallets") \/ /\ schema = CHOOSE x \in Schemas : TRUE
                            /\ wallets[1].address = (CHOOSE x \in Legacy : TRUE)[2]
    /\ Serves("kyc") \/ deployment = CHOOSE x \in Deployments : TRUE
    /\ Serves("notifications") \/ mailer
    /\ Serves("gateway") \/ escrow.type = "single-release"

ServicesInit ==
    /\ CallsInit
    /\ AccountsInit(Enterprises, Admins)
    /\ WalletsInit
    /\ RoomInit
    /\ HiringInit
    /\ IdentityInit
    /\ NoticesInit
    /\ GatewayInit
    /\ MemoryInit
    /\ NotServed
    /\ IF Serves("distributions") THEN DistributionsInit ELSE NoDistribution

ServicesNext ==
    \/ /\ Serves("wallets") /\ WalletsNext
       /\ UNCHANGED <<roomVars, hiringVars, identityVars, noticeVars, platformVars>>
    \/ /\ Serves("room") /\ RoomNext
       /\ UNCHANGED <<hiringVars, identityVars, noticeVars, platformVars>>
    \/ /\ Serves("hiring") /\ HiringNext
       /\ UNCHANGED <<walletVars, roomVars, identityVars, noticeVars, platformVars>>
    \/ /\ Serves("kyc") /\ KycNext
       /\ UNCHANGED <<walletVars, roomVars, hiringVars, noticeVars, platformVars>>
    \/ /\ Serves("kyb") /\ KybNext
       /\ UNCHANGED <<walletVars, roomVars, hiringVars, noticeVars, platformVars>>
    \/ /\ Serves("notifications") /\ NotificationsNext
       /\ UNCHANGED <<walletVars, roomVars, hiringVars, identityVars, platformVars>>
    \/ /\ Serves("gateway") /\ GatewayNext
       /\ UNCHANGED <<accountVars, tableVars, memoryVars, distributionVars>>
    \/ /\ Serves("memory") /\ MemoryNext
       /\ UNCHANGED <<accountVars, tableVars, gatewayVars, distributionVars>>
    \/ /\ Serves("distributions") /\ buildDistributions
       /\ UNCHANGED <<callVars, accountVars, tableVars, gatewayVars, memoryVars>>

ServicesSpec == ServicesInit /\ [][ServicesNext]_serviceVars
====
