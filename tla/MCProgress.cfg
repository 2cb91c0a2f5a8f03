\* Claims and gates in time, calls of update and archive, managed work, its executor,
\* mailbox, restore.
SPECIFICATION ProgressSpec
CONSTANTS
    alice1 = alice1
    bob1 = bob1
    alice = alice
    bob = bob
    t1 = t1
    n1 = n1
    NoClaim = NoClaim
    NoGate = NoGate
    NoCall = NoCall
    Local = {}
    NoRow = NoRow
    Participant = {alice1, bob1}
    Principal <- MCPrincipal
    PrincipalOf <- MCPrincipalOf
    Entity = {t1}
    Name = {t1, n1}
    TypedName <- MCTypedName
    Existing = {t1}
    Lifecycle = {t1}
    Gate = {}
    Question = {}
    Session = {s1}
    EntryId = {1}
    AttemptId = {1}
    Mortal = {alice1}
    Maintainer = {bob1}
    Policies <- MCPolicies
    OnStart = "working"
    OutcomeWork <- MCOutcomeWork
    RetryLimit = 2
    InitialBackoff = 1
    MaxBackoff = 1
    MaxTtl = 2
    MaxFence = 3
    MaxGrant = 2
    r1 = r1
    Run = {r1, r2}
    NoRun = NoRun
    MaxDelivery = 2
    MaxEpoch = 3
    MaxRewakes = 1
    Task = {t1}
    Client = {k1}
    NoArchive = NoArchive
    MaxRestored = 4
PROPERTIES
    CallsRespectForeignClaims
    CrashedHolderYields
    DeadReservationsYield
    WaitingMailWakesTheSession
    RestoresFinish
CHECK_DEADLOCK FALSE
