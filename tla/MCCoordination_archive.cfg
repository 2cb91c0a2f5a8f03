SPECIFICATION Spec
CONSTANTS
    alice1 = alice1
    alice2 = alice2
    bob1 = bob1
    alice = alice
    bob = bob
    task = task
    typed = typed
    NoClaim = NoClaim
    NoGate = NoGate
    Participant = {alice1, bob1}
    Principal <- MCPrincipal
    PrincipalOf <- MCPrincipalOf
    Name = {task, typed}
    Entity = {task}
    TypedName <- MCTypedName
    Existing = {task}
    Lifecycle = {}
    Gate = {g1}
    Mortal = {}
    MaxTtl = 1
    MaxFence = 2
PROPERTIES
    ArchiveChecksEveryGate
