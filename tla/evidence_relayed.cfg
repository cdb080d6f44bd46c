SPECIFICATION ServicesSpec
CONSTANTS
    Reqs = {"r1", "r2"}
    Users = {"u1", "u2", "u3"}
    Services = {"wallets", "hiring", "kyc", "kyb", "room", "notifications", "gateway", "memory", "distributions"}
    Loads <- GatewayLoads
    MaxFaults = 1
    Nothing = Nothing
    Addresses = {"a1", "a2", "a3"}
    PollarIds = {"p1"}
    KeyHolder <- MCKeyHolder
    PollarUser <- MCPollarUser
    Enterprises = {"u1"}
    Admins = {"u3"}
    MaxRows = 3
    MaxChallenges = 1
    Legacy <- MCLegacy
    Schemas = {"001", "013"}
    MaxOpportunities = 1
    Organizations = {"o1"}
    Deployments <- MCDeployments
    MaxSessions = 2
    MaxWords = 2
    Agreements = {"g1", "g2"}
    CreatedBy <- MCCreatedBy
    ParticipantsOf <- MCParticipantsOf
    MaxFiles = 2
    MaxMessages = 2
    MaxNotices = 2
    Milestones = {1, 2}
    AmountOf <- MCAmountOf
    Parties = {"payer", "provider"}
    Trusting = {"payer"}
    MaxAttempts = 2
    Ticks = {1, 2}
    MaxMemoryJobs = 2
    maxRetries = 2
    Whole = 12
    Tolerance = 1
    Drift = 1
    MaxParties = 3
    MaxTotal = 9
INVARIANT EvidenceNeedsFunding
CHECK_DEADLOCK FALSE
