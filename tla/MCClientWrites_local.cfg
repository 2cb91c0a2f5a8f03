SPECIFICATION CallsSpec
CONSTANTS
    alice1 = alice1
    bob1 = bob1
    alice = alice
    bob = bob
    task = task
    typed = typed
    NoClaim = NoClaim
    NoGate = NoGate
    NoCall = NoCall
    Participant = {alice1, bob1}
    Principal <- MCPrincipal
    PrincipalOf <- MCPrincipalOf
    Name = {task, typed}
    Entity = {task}
    TypedName <- MCTypedName
    Existing = {task}
    Lifecycle = {task}
    Gate = {}
    Mortal = {}
    Local = {alice1, bob1}
    MaxTtl = 2
    MaxFence = 3
PROPERTIES
    CallsRespectForeignClaims
