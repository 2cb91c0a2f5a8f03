SPECIFICATION QueueSpec
CONSTANTS
    alice1 = alice1
    bob1 = bob1
    alice = alice
    bob = bob
    t1 = t1
    t2 = t2
    n1 = n1
    n2 = n2
    NoClaim = NoClaim
    NoGate = NoGate
    NoRow = NoRow
    Participant = {alice1, bob1}
    Principal <- MCPrincipal
    PrincipalOf <- MCPrincipalOf
    Entity = {t1}
    Name = {t1, n1}
    TypedName <- MCTypedName
    Existing = {t1}
    Lifecycle = {t1}
    Gate = {g1}
    Question = {}
    Session = {s1}
    EntryId = {1}
    AttemptId = {1}
    Mortal = {}
    Maintainer = {alice1}
    Policies <- MCSteady
    OnStart = "working"
    OutcomeWork <- MCOutcomeWork
    RetryLimit = 2
    InitialBackoff = 1
    MaxBackoff = 1
    MaxTtl = 1
    MaxFence = 1
    MaxGrant = 2
INVARIANTS
    ExpiryNeverFails
