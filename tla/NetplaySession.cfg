\* A host and one player who may lack the disk; one edit, re-check or leaving
\* and one lost call, at any moment. The start is not counted.
CONSTANTS
    None = None
    Players = 2
    Hashes = {"bare", "disk"}
    Rests = {"full", "half"}
    NoMedia = "bare"
    Launchers = {"host", "player"}
    Host = "host"
    FirstDocs <- MCFirstDocs
    Lacking = {"player"}
    Unfound = {"disk"}
    ActLimit = 1
    FailLimit = 1
SPECIFICATION Spec
INVARIANTS
    PlayersLaunchTheGame
    StartIsForScreen
    ReadyIsTrue
PROPERTIES
    HostEditsStand
    ConfigArrives
    EveryoneLaunches
