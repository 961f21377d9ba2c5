\* One emulator may leave at any point, and both queues may overflow in the
\* same step: one frame, its ping and one input.
CONSTANTS
    c1 = c1
    c2 = c2
    Nobody = Nobody
    Odd = c1
    Conns = {c1, c2}
    Players = 2
    MaxDrift = 1
    RingSize = 2
    OutDepth = 2
    AutoFlush = 4
    PingEvery = 1
    StatusEvery = 100
    EventDepth = 1
    VersionOf <- SameVersions
    Divergences = {"never"}
    FrameLimit = 1
    InputLimit = 1
    TextLimit = 0
    QuitLimit = 1
SYMMETRY Symmetric
SPECIFICATION Spec
INVARIANTS
    LockStep
    NoPanic
    EveryoneTold
PROPERTIES
    ImplementsSync
