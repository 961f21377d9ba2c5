\* Three connections for two slots, one of them with another emulator version;
\* one leaves and one sends a text; nothing is ticked.
CONSTANTS
    c1 = c1
    c2 = c2
    c3 = c3
    Nobody = Nobody
    Odd = c1
    Conns = {c1, c2, c3}
    Players = 2
    MaxDrift = 1
    RingSize = 2
    OutDepth = 2
    AutoFlush = 4
    PingEvery = 2
    StatusEvery = 100
    EventDepth = 1
    VersionOf <- MixedVersions
    Divergences = {"never"}
    FrameLimit = 0
    InputLimit = 0
    TextLimit = 1
    QuitLimit = 1
SPECIFICATION Spec
INVARIANTS
    SameVersion
PROPERTIES
    ConnectionsEnd
