---- MODULE MCServices ----
EXTENDS Services

MCKeyHolder == [a \in Addresses |-> CASE a = "a1" -> "u1" [] a = "a2" -> "u2" [] a = "a3" -> "u3"]

MCPollarUser == [p \in PollarIds |-> "u1"]

\* A row for the own wallet, and one for a wallet of somebody else.
MCLegacy == {<<"u1", "a1">>, <<"u1", "a2">>}

Load(service, users, slots, requests) ==
    [service |-> service, users |-> users, slots |-> slots, requests |-> requests]

One == {"r1"}

Two == {"r1", "r2"}

WalletLoads == {Load("wallets", {"u1", "u2"}, One, 2), Load("wallets", {"u1"}, One, 3),
                Load("wallets", {"u1"}, Two, 2)}

HiringLoads == {Load("hiring", {"u1", "u2", "u3"}, One, 6), Load("hiring", {"u1", "u2", "u3"}, Two, 4)}

KycLoads == {Load("kyc", {"u1"}, One, 2), Load("kyc", {"u1"}, Two, 2)}

KybLoads == {Load("kyb", {"u1", "u2", "u3"}, One, 5), Load("kyb", {"u1", "u2", "u3"}, Two, 4)}

RoomLoads == {Load("room", {"u1", "u2"}, One, 4), Load("room", {"u1", "u2"}, Two, 3)}

NoticeLoads == {Load("notifications", {"u1", "u2"}, Two, 2)}

\* A user among them has transactions prepared too.
GatewayLoads == {Load("gateway", {}, One, 3), Load("gateway", {}, Two, 2),
                 Load("gateway", {"u1"}, One, 2)}

MemoryLoads == {Load("memory", {}, {}, 0)}

DistributionLoads == {Load("distributions", {}, {}, 0)}

MCAmountOf == [m \in Milestones |-> m]

\* Each provider, and each followed by another one.
MCDeployments ==
    {[now |-> d[1], next |-> d[2]] :
       d \in {<<"sumsub", "persona">>, <<"persona", "stripe">>, <<"veriff", "synaps">>,
              <<"synaps", "alloy">>, <<"stripe", "veriff">>, <<"alloy", "sumsub">>}}

MCCreatedBy == [g \in Agreements |-> IF g = "g1" THEN "u1" ELSE "u2"]

\* The first user is a member of one agreement, the second of both.
MCParticipantsOf == [g \in Agreements |-> IF g = "g1" THEN {"a1", "a2"} ELSE {"a2", "a3"}]

MCLoads == WalletLoads \cup RoomLoads \cup HiringLoads \cup KycLoads \cup KybLoads
           \cup NoticeLoads \cup GatewayLoads \cup MemoryLoads \cup DistributionLoads
====
