\* Capacity, questions and gates.
SPECIFICATION RulesSpec
CONSTANTS
    alice1 = alice1
    bob1 = bob1
    alice = alice
    bob = bob
    t1 = t1
    t2 = t2
    n1 = n1
    n2 = n2
    NoClaim = NoClaim
    NoGate = NoGate
    NoRow = NoRow
    Participant = {alice1, bob1}
    Principal <- MCPrincipal
    PrincipalOf <- MCPrincipalOf
    Entity = {t1, t2}
    Name = {t1, t2, n1, n2}
    TypedName <- MCTypedName
    Existing = {}
    Lifecycle = {t1, t2}
    Gate = {g1}
    Question = {q1}
    Session = {s1, s2}
    EntryId = {1, 2}
    AttemptId = {1, 2}
    Mortal = {}
    Worker = bob1
    Maintainer = {alice1}
    Policies <- MCLimits
    OnStart = "working"
    OutcomeWork <- MCOutcomeWork
    RetryLimit = 2
    InitialBackoff = 1
    MaxBackoff = 1
    MaxTtl = 1
    MaxFence = 1
    MaxGrant = 4
SYMMETRY MCTaskSymmetry
INVARIANTS
    OpenQuestionsStand
PROPERTIES
    AnswersNeverRevive
    GrantsRespectLimits
    ReportsAreTrue
    FinishedWorkHasNoOpenGate
