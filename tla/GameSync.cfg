\* Two players, a drift of one frame and the smallest ring the assumption
\* allows, so that every ring entry is reused within the frames followed.
CONSTANTS
    Players = 2
    MaxDrift = 1
    RingSize = 2
    Data = {0, 1}
    FrameLimit = 4
SPECIFICATION Spec
INVARIANTS
    NoFalseDesync
    DesyncCaughtWithinDrift
PROPERTIES
    StallsHoldAndEnd
    DivergenceEndsGame
